---------------------------- MODULE Spec2Model ----------------------------
(***************************************************************************)
(* Frame lifecycle and object-set mutation protocol of based-engine-2:     *)
(* BasedEngine (start/stop/loadLevel/_gameLoop/_update/_render) and        *)
(* BasedLevel (addObject/removeObject/queries/_init/_update/_draw/_drawUI/ *)
(* _resize/_destroy), with the hooks of levels and game objects as the     *)
(* environment.                                                            *)
(*                                                                         *)
(* JavaScript runs one task at a time.  A frame tick is a task, cut here   *)
(* into its steps (pc) because the hooks it calls are game code that calls *)
(* back into the engine (addObject, removeObject, loadLevel).  The part of *)
(* an async function after an await is a later task: PreloadResolve is the *)
(* rest of BasedLevel._init, LoadResume the rest of BasedEngine.loadLevel. *)
(*                                                                         *)
(* Spec is the engine with levels whose hooks call it back.  ClockSpec,    *)
(* LoadSpec and InputSpec are the engine with plain levels and one more    *)
(* part of its surroundings each: the host's clock (the frame delta),      *)
(* failing create hooks and setLoadingProgress, and the input events of    *)
(* the page (InputManager).  ResolvingSpec is the engine with plain levels  *)
(* whose preload always resolves; CameraSpec adds the calls of the Camera, *)
(* PhysicsSpec a PhysicsWorld with its collision events.  SqueezeSpec is   *)
(* the sample game (the-squeeze) with a frame as one step, SqueezeFair the *)
(* same with frames that keep coming.                                      *)
(***************************************************************************)
EXTENDS Integers, Sequences, FiniteSets

\* ------------------------------------------------------------------ bounds
\* Game objects that exist at a time (an object nothing refers to any more
\* is gone, and the game may construct it anew).
NObj == 3
\* Requests a level's pending-add array and pending-remove Set hold at a time.
MaxPending == 2
\* Level instances constructed over a run (one per loadLevel with a known key).
MaxLevels == 2
\* The host clock runs to MaxNow, in steps of up to MaxElapse; one unit of time
\* is 50 ms, so that the cap of the frame delta (0.1 s) is two units.
MaxNow == 4
MaxElapse == 3
DeltaCap == 2

Objs == 1..NObj
Levels == 1..MaxLevels

\* ------------------------------------------------- the game (environment)
\* Keys passed to registerLevel, and one key that was never registered.
Keys == {"A", "B"}
NoKey == "X"

\* The fields a GameObject is constructed with; four kinds of object.
\*   kind 0: id "a", depth 0                  kind 1: id "b", depth 0, paused
\*   kind 2: id "a", depth 1                  kind 3: id "c", depth 0, hidden
\* Kinds 0 and 2 share an identifier; kinds 0 and 1 are visible at one depth.
Kind(o) == (o - 1) % 4
ObjId(o) == CASE Kind(o) = 1 -> "b" [] Kind(o) = 3 -> "c" [] OTHER -> "a"
ObjDepth(o) == IF Kind(o) = 2 THEN 1 ELSE 0
ObjVisible(o) == Kind(o) # 3
ObjActive(o) == Kind(o) # 1
ObjHasTag(o, tag) == tag = "t" /\ Kind(o) \in {0, 3}
Ids == {ObjId(o) : o \in Objs}
Tags == {"t", "u"}

\* The level classes passed to registerLevel are of one of two sorts: levels
\* whose hooks and entities call addObject, removeObject and loadLevel as they
\* like ("calling"), or levels whose create hook adds an entity and whose other
\* hooks at most remove a live entity ("plain").
Classes == {"calling", "plain"}

\* A JavaScript number, as far as the loading progress needs it: a multiple of
\* a tenth, or NaN.
Num(v) == [nan |-> FALSE, v |-> v]
NaN == [nan |-> TRUE, v |-> 0]
\* Math.min and Math.max: NaN if an argument is NaN.
MathMin(a, b) == IF a.nan \/ b.nan THEN NaN ELSE IF a.v <= b.v THEN a ELSE b
MathMax(a, b) == IF a.nan \/ b.nan THEN NaN ELSE IF a.v >= b.v THEN a ELSE b
\* The arguments game code passes to setLoadingProgress: -0.5, 0, 0.5, 1, 1.7
\* and NaN (such as 0 / 0, the share loaded of no assets); with a message or
\* without one.
Progresses == {Num(-5), Num(0), Num(5), Num(10), Num(17), NaN}
Messages == {"", "Loading level..."}

\* The key codes and pointer events the page can deliver.
Codes == {"KeyR"}

VARIABLES
  running,      \* BasedEngine._running
  rafLatest,    \* the frame callback _animFrame names is still pending
  rafOther,     \* pending frame callbacks that _animFrame no longer names
  current,      \* BasedEngine._currentLevel (0: null)
  currentKey,   \* BasedEngine._currentLevelKey
  isLoading,    \* BasedEngine._isLoading
  nLevels,      \* level instances constructed so far
  loadStage,    \* per loadLevel call (= per instance): where the call stands
  startWaits,   \* per loadLevel call: a start() call awaits it
  initialized,  \* BasedLevel._initialized
  objects,      \* BasedLevel._objects: the Map, as its values in iteration order
  toAdd,        \* BasedLevel._objectsToAdd
  toRemove,     \* BasedLevel._objectsToRemove: the Set, in iteration order
  inserted,     \* per level: the live entities in the order they were inserted
  pc,           \* where the running task stands ("idle": between tasks)
  lvl,          \* `this` of the BasedLevel method the tick is inside
  idx,          \* position of the loop the tick is inside
  sorted,       \* sortedObjects of _draw / _drawUI
  phases,       \* what the latest tick has done so far, pass by pass
  trace,        \* the hooks the pass the tick is inside has invoked, in order
  callLog,      \* per loadLevel call: what it has done so far, in order
  objDestroyed, \* per object: destroy hook invocations
  objLate,      \* per object: an update/draw/drawUI hook ran after its destroy hook
  lvDestroyed,  \* per level: destroy hook invocations
  lvLate,       \* per level: a create/update/draw/drawUI/resize hook ran after its destroy hook
  levelClass,   \* the sort of level class BasedEngine._levels holds under every key
  now,          \* the host's clock: performance.now() and the time of a frame callback
  lastTime,     \* BasedEngine._lastTime
  delta,        \* BasedEngine._delta
  loadingProgress, \* BasedEngine._loadingProgress
  loadingMessage,  \* BasedEngine._loadingMessage
  keys,         \* InputManager._keys
  keysJustPressed,  \* InputManager._keysJustPressed
  keysJustReleased, \* InputManager._keysJustReleased
  mouse,        \* InputManager._mouse: down, justPressed, justReleased
  edgeTicks,    \* per one-shot input state: the ticks that have run with it set since it was recorded
  cascade,      \* the hooks the latest Level._destroy or Level._resize call invoked, in order
  camera,       \* BasedEngine._camera: the fields of the Camera
  physics,      \* a PhysicsWorld: its Matter bodies, its PhysicsBody objects, the latest event
  squeeze       \* the sample game: the level the engine runs, its state, the pointer over its buttons

engineVars == <<running, rafLatest, rafOther>>
loadVars == <<current, currentKey, isLoading, nLevels, loadStage, startWaits,
              initialized, callLog, lvDestroyed, loadingProgress, loadingMessage>>
setVars == <<objects, toAdd, toRemove, inserted>>
tickVars == <<pc, lvl, idx, sorted, phases, trace>>
clockVars == <<now, lastTime, delta>>
inputVars == <<keys, keysJustPressed, keysJustReleased, mouse>>
\* What neither a loadLevel call nor a hook's call of the level changes.
\* What the game owns beside its levels.
gameVars == <<physics, squeeze>>
hostVars == <<levelClass, now, lastTime, delta, keys, keysJustPressed,
              keysJustReleased, mouse, edgeTicks, camera, gameVars>>
vars == <<running, rafLatest, rafOther, current, currentKey, isLoading, nLevels,
          loadStage, startWaits, initialized, objects, toAdd, toRemove, inserted,
          pc, lvl, idx, sorted, phases, trace, callLog, objDestroyed,
          objLate, lvDestroyed, lvLate, levelClass, now, lastTime, delta,
          loadingProgress, loadingMessage, keys, keysJustPressed,
          keysJustReleased, mouse, edgeTicks, cascade, camera, physics, squeeze>>

\* ------------------------------------------------------------ Map and sort
\* JavaScript's Map iterates in the order the keys were first set; set() on a
\* present key replaces the value in place, delete() closes the gap.
MapHas(m, id) == \E i \in 1..Len(m) : ObjId(m[i]) = id
MapGet(m, id) == IF MapHas(m, id) THEN m[CHOOSE i \in 1..Len(m) : ObjId(m[i]) = id] ELSE 0
MapSet(m, o) ==
  IF MapHas(m, ObjId(o))
  THEN [i \in 1..Len(m) |-> IF ObjId(m[i]) = ObjId(o) THEN o ELSE m[i]]
  ELSE Append(m, o)
MapDelete(m, id) == SelectSeq(m, LAMBDA x : ObjId(x) # id)
SeqSet(s) == {s[i] : i \in 1..Len(s)}
\* Set.add: no effect on a member.
SetAdd(s, x) == IF x \in SeqSet(s) THEN s ELSE Append(s, x)

\* Array.prototype.sort((a, b) => a.depth - b.depth): stable.
InsertByDepth(s, o) ==
  LET after == {i \in 1..Len(s) : ObjDepth(s[i]) > ObjDepth(o)}
      p == IF after = {} THEN Len(s) + 1 ELSE CHOOSE i \in after : \A j \in after : i <= j
  IN  SubSeq(s, 1, p - 1) \o <<o>> \o SubSeq(s, p, Len(s))
RECURSIVE SortByDepth(_)
SortByDepth(s) ==
  IF s = <<>> THEN <<>>
  ELSE InsertByDepth(SortByDepth(SubSeq(s, 1, Len(s) - 1)), s[Len(s)])
\* Array.from(this._objects.values()).filter(obj => obj.visible).sort(...)
SortedVisible(m) == SortByDepth(SelectSeq(m, ObjVisible))

\* ------------------------------------------------------------------ Camera
\* Lengths are in units of which a pixel has Px: the share of the way to its
\* target the camera moves in a tick is a multiple of a quarter, so that the
\* positions it takes in MaxNow units of time are whole numbers of units.
\* Zoom factors are in tenths, the time of a shake in units of time (50 ms).
Px == 4 ^ MaxNow
ScreenW == 8 * Px
ScreenH == 4 * Px
\* What game code passes to the camera: the points of setPosition, the target
\* of follow,
\* the level size of setBounds, the factors of setZoomImmediate (0, 1 and 2),
\* the intensity of shake (its duration the default, 200 ms).
Points == {<<0, 0>>, <<20 * Px, 3 * Px>>}
Targets == {<<20 * Px, 3 * Px>>}
BoundsArgs == {[width |-> 16 * Px, height |-> 2 * Px]}
Zooms == {0, 10, 20}
Intensities == {2 * Px}
ShakeDefault == 4
\* Math.random() * 2 - 1, in halves: -1 and 1/2.
Randoms == {-2, 1}
NoTarget == <<>>
NoBounds == [width |-> -1, height |-> -1]

\* The fields of `new Camera()`.
NewCamera ==
  [x |-> 0, y |-> 0, zoom |-> 10, targetX |-> 0, targetY |-> 0, targetZoom |-> 10,
   followTarget |-> NoTarget, followSpeed |-> 5, bounds |-> NoBounds,
   shakeIntensity |-> 0, shakeDuration |-> 0, shakeTime |-> 0,
   shakeOffset |-> [x |-> 0, y |-> 0]]

IntMin(a, b) == IF a <= b THEN a ELSE b
IntMax(a, b) == IF a >= b THEN a ELSE b
Abs(v) == IF v < 0 THEN -v ELSE v
\* num.approach(current, target, maxDelta)
Approach(cur, target, maxDelta) ==
  IF cur < target THEN IntMin(cur + maxDelta, target) ELSE IntMax(cur - maxDelta, target)
\* num.clamp(value, min, max)
Clamp(value, min, max) == IntMax(min, IntMin(max, value))

\* (this._screenWidth / 2) / this.zoom, for a screen size and a zoom in tenths.
HalfScreen(size, zoom) == (size * 10) \div (2 * zoom)

\* Camera.update(delta), delta in units of time (delta seconds are d / 20),
\* with the two values of Math.random() * 2 - 1 the shake draws: the target
\* followed, the position and the zoom moved towards their targets, the
\* position clamped to the bounds or centred on them, the shake offset set.
CameraUpdate(C, d, rx, ry) ==
  LET tx == IF C.followTarget # NoTarget THEN C.followTarget[1] ELSE C.targetX
      ty == IF C.followTarget # NoTarget THEN C.followTarget[2] ELSE C.targetY
      x1 == Approach(C.x, tx, (Abs(tx - C.x) * C.followSpeed * d) \div 20)
      y1 == Approach(C.y, ty, (Abs(ty - C.y) * C.followSpeed * d) \div 20)
      z1 == Approach(C.zoom, C.targetZoom, (Abs(C.targetZoom - C.zoom) * 5 * d) \div 20)
      halfW == HalfScreen(ScreenW, z1)
      halfH == HalfScreen(ScreenH, z1)
      shaking == C.shakeTime < C.shakeDuration
      time == IF shaking THEN C.shakeTime + d ELSE C.shakeTime
      \* (random * 2 - 1) * this._shakeIntensity * (1 - time / duration)
      Offset(r) ==
        IF shaking
        THEN (r * C.shakeIntensity * (C.shakeDuration - time)) \div (2 * C.shakeDuration)
        ELSE 0
  IN  [C EXCEPT !.targetX = tx, !.targetY = ty, !.zoom = z1,
                !.x = IF C.bounds = NoBounds THEN x1
                      ELSE IF halfW * 2 >= C.bounds.width THEN C.bounds.width \div 2
                      ELSE Clamp(x1, halfW, C.bounds.width - halfW),
                !.y = IF C.bounds = NoBounds THEN y1
                      ELSE IF halfH * 2 >= C.bounds.height THEN C.bounds.height \div 2
                      ELSE Clamp(y1, halfH, C.bounds.height - halfH),
                !.shakeTime = time,
                !.shakeOffset = [x |-> Offset(rx), y |-> Offset(ry)]]

\* get position(): the position with the shake offset.
Position(C) == [x |-> C.x + C.shakeOffset.x, y |-> C.y + C.shakeOffset.y]

\* getVisibleBounds()
GetVisibleBounds(C) ==
  LET halfW == HalfScreen(ScreenW, C.zoom)
      halfH == HalfScreen(ScreenH, C.zoom)
      pos == Position(C)
  IN  [x |-> pos.x - halfW, y |-> pos.y - halfH, width |-> halfW * 2, height |-> halfH * 2]

\* ----------------------------------------------- PhysicsWorld, PhysicsBody
\* The Matter bodies a world holds, the callbacks a PhysicsBody registers per
\* event, and the pairs an event of the simulation reports.
MaxBodies == 3
MaxCallbacks == 2
MaxPairs == 2
Callbacks == {"f"}
EventKinds == {"collisionStart", "collisionEnd"}
\* plugin.physicsBody of a Matter body that no PhysicsBody owns: undefined.
NoBody == -1

\* `new PhysicsWorld()`: no body, _nextId 0; no event dispatched yet.
NewPhysicsWorld ==
  [matter |-> <<>>, nextId |-> 0,
   collisionStartCallbacks |-> <<>>, collisionEndCallbacks |-> <<>>,
   event |-> "", pairs |-> <<>>, notified |-> <<>>]

\* The Matter bodies, by their position in the world, and the pairs of them.
MatterBodies(P) == 1..Len(P.matter)
PairsOf(P) == {pr \in MatterBodies(P) \X MatterBodies(P) : pr[1] # pr[2]}
\* _getBodyFromMatter(matterBody): its plugin's physicsBody.
GetBodyFromMatter(P, m) == P.matter[m]
\* The callbacks of PhysicsBody b for an event (body_n is the n+1st created).
CallbacksOf(P, kind, b) ==
  IF kind = "collisionStart"
  THEN P.collisionStartCallbacks[b + 1]
  ELSE P.collisionEndCallbacks[b + 1]

\* _onCollisionStart(other, pair) / _onCollisionEnd(other, pair) of body b:
\* every callback of the list, in its order, called with the other body.
OnCollision(P, kind, b, other, pair) ==
  [j \in 1..Len(CallbacksOf(P, kind, b)) |->
     [body |-> b, callback |-> CallbacksOf(P, kind, b)[j], position |-> j,
      other |-> other, pair |-> pair]]

\* The mutant of the listener's loop body: body A notified alone.
NotifyPairFirstOnly(P, kind, pairs, i) ==
  LET bodyA == GetBodyFromMatter(P, pairs[i][1])
      bodyB == GetBodyFromMatter(P, pairs[i][2])
  IN  IF bodyA # NoBody /\ bodyB # NoBody
      THEN OnCollision(P, kind, bodyA, bodyB, i)
      ELSE <<>>

\* One pass of `for (const pair of event.pairs)`: both bodies looked up, and
\* if both are there, A notified with B and then B with A.
NotifyPair(P, kind, pairs, i) ==
  LET bodyA == GetBodyFromMatter(P, pairs[i][1])
      bodyB == GetBodyFromMatter(P, pairs[i][2])
  IN  IF bodyA # NoBody /\ bodyB # NoBody
      THEN OnCollision(P, kind, bodyA, bodyB, i) \o OnCollision(P, kind, bodyB, bodyA, i)
      ELSE <<>>

\* The listener of an event: the calls it makes for the pairs from i on.
RECURSIVE Notify(_, _, _, _)
Notify(P, kind, pairs, i) ==
  IF i > Len(pairs) THEN <<>>
  ELSE NotifyPair(P, kind, pairs, i) \o Notify(P, kind, pairs, i + 1)

\* --------------------------------------------------- the sample game: data
\* The levels startTheSqueeze() registers, and those that extend SqueezeLevel.
LevelKeys == {"start-screen", "credits", "level-01", "level-02"}
SqueezeLevels == {"level-01", "level-02"}

\* getNextLevel() of Level01 and of Level02.
GetNextLevel(key) ==
  CASE key = "level-01" -> "level-02"
    [] key = "level-02" -> "credits"
    [] OTHER -> ""

\* The maxRadius of the one exit of the level's data.
ExitMaxRadius(key) == IF key = "level-01" THEN 40 ELSE 35

\* The radius a Player starts with and is reset to, and the radii the model
\* tells apart: the least one, one between the two exits' limits, the first.
OriginalRadius == 50
Radii == {25, 40, OriginalRadius}

\* A player: whether its position is within half the exit's width and height
\* of the exit, and its radius.  No level's playerStart is within an exit.
Players == [inRange : BOOLEAN, radius : Radii]
NoPlayer == [inRange |-> FALSE, radius |-> 0]
PlayerStart == [inRange |-> FALSE, radius |-> OriginalRadius]

\* Where the pointer is: over one of the buttons, or over none.
Spots == {"none", "startButton", "creditsButton", "backButton", "resetButton"}

\* The buttons a level's update hook updates.
ButtonsOf(key) ==
  CASE key = "start-screen" -> {"startButton", "creditsButton"}
    [] key = "credits" -> {"backButton"}
    [] key \in SqueezeLevels -> {"resetButton"}
    [] OTHER -> {}

\* The fields of a level instance as its constructor leaves them.
NewLevel(G, key) ==
  [G EXCEPT !.key = key, !.gameState = "playing", !.nextLevel = "",
            !.player = NoPlayer, !.pressed = "none"]

\* The game before startTheSqueeze(): no level.
NotStarted ==
  [key |-> "", loading |-> FALSE, gameState |-> "playing", nextLevel |-> "",
   player |-> NoPlayer, over |-> "none", pressed |-> "none"]

\* ------------------------------------------------------------------- Init
\* The one-shot input states, and the state of the pointer.
Edges == {"keyPressed", "keyReleased", "pointerPressed", "pointerReleased"}
Mouse(d, p, r) == [down |-> d, justPressed |-> p, justReleased |-> r]

\* The state after `new BasedEngine(config)`: not running, no level, nothing
\* loading, no level instance yet; no key held, no pointer down.
Constructed ==
  /\ running = FALSE
  /\ rafLatest = FALSE
  /\ rafOther = 0
  /\ current = 0
  /\ currentKey = ""
  /\ isLoading = FALSE
  /\ nLevels = 0
  /\ loadStage = [l \in Levels |-> "none"]
  /\ startWaits = [l \in Levels |-> FALSE]
  /\ initialized = [l \in Levels |-> FALSE]
  /\ objects = [l \in Levels |-> <<>>]
  /\ toAdd = [l \in Levels |-> <<>>]
  /\ toRemove = [l \in Levels |-> <<>>]
  /\ inserted = [l \in Levels |-> <<>>]
  /\ pc = "idle"
  /\ lvl = 0
  /\ idx = 0
  /\ sorted = <<>>
  /\ phases = <<>>
  /\ trace = <<>>
  /\ callLog = [l \in Levels |-> <<>>]
  /\ objDestroyed = [o \in Objs |-> 0]
  /\ objLate = [o \in Objs |-> FALSE]
  /\ lvDestroyed = [l \in Levels |-> 0]
  /\ lvLate = [l \in Levels |-> FALSE]
  /\ now = 0
  /\ lastTime = 0
  /\ delta = 0
  /\ loadingProgress = Num(0)
  /\ loadingMessage = ""
  /\ keys = {}
  /\ keysJustPressed = {}
  /\ keysJustReleased = {}
  /\ mouse = Mouse(FALSE, FALSE, FALSE)
  /\ edgeTicks = [e \in Edges |-> 0]
  /\ cascade = <<>>
  /\ camera = NewCamera
  /\ physics = NewPhysicsWorld
  /\ squeeze = NotStarted

\* ... and after registerLevels, with level classes that call the engine
\* from their hooks, or with plain ones.
Init == Constructed /\ levelClass = "calling"
HostInit == Constructed /\ levelClass = "plain"

\* ----------------------------------------------- BasedLevel: object management
\* The collections of one level, as one value.
LevelRec(l) ==
  [objects |-> objects[l], toAdd |-> toAdd[l], toRemove |-> toRemove[l],
   inserted |-> inserted[l]]

\* The mutants of addObject, removeObject and of the insertion of the drain.
AddObjectNow(L, o) == [L EXCEPT !.objects = MapSet(@, o), !.inserted = Append(@, o)]
RemoveObjectNow(L, id) ==
  [L EXCEPT !.objects = MapDelete(@, id), !.toRemove = SetAdd(@, id),
            !.inserted = SelectSeq(@, LAMBDA x : ObjId(x) # id)]
InsertedAfterCreate(L, o) == L

\* addObject(object): this._objectsToAdd.push(object)
AddObject(L, o) == [L EXCEPT !.toAdd = Append(@, o)]

\* removeObject(id): this._objectsToRemove.add(id)
RemoveObject(L, id) == [L EXCEPT !.toRemove = SetAdd(@, id)]

\* this._objects.set(obj.id, obj) of the drain: the level with o in its Map.
\* An entity the Map held under the same id is in the Map no longer.
Inserted(L, o) ==
  [L EXCEPT !.objects = MapSet(@, o),
            !.inserted = Append(SelectSeq(@, LAMBDA x : ObjId(x) # ObjId(o)), o)]

\* this._objects.delete(id) of the drain.
Erased(L, id) ==
  [L EXCEPT !.objects = MapDelete(@, id),
            !.inserted = SelectSeq(@, LAMBDA x : ObjId(x) # id)]

\* getObject(id): this._objects.get(id)   (0: undefined)
GetObject(L, id) == MapGet(L.objects, id)

\* getObjects(): Array.from(this._objects.values())
GetObjects(L) == L.objects

\* getObjectsByTag(tag): this.getObjects().filter(obj => obj.hasTag(tag))
GetObjectsByTag(L, tag) == SelectSeq(GetObjects(L), LAMBDA o : ObjHasTag(o, tag))

\* findObject(predicate): the first live object, in Map order, the predicate
\* accepts (0: undefined).  A predicate is the set of objects it accepts.
FindObject(L, P) ==
  LET hits == {i \in 1..Len(L.objects) : L.objects[i] \in P}
  IN  IF hits = {} THEN 0 ELSE L.objects[CHOOSE i \in hits : \A j \in hits : i <= j]

\* findObjects(predicate): every live object the predicate accepts, in Map order.
FindObjects(L, P) == SelectSeq(L.objects, LAMBDA o : o \in P)

\* ------------------------------------------------- what a hook may call
\* An entry of trace: the hook, the level it belongs to, the object (0: the
\* level's own hook), whether the hook finds its object in the live set (its
\* level current, for a level's hook), and the loading flag when it is invoked.
Ev(kind, l, o, objs) ==
  [hook |-> kind, level |-> l, obj |-> o,
   live |-> IF o = 0 THEN l = current ELSE o \in SeqSet(objs),
   loading |-> isLoading]

\* A hook is game code.  One invocation makes at most one of these calls:
\* level.addObject(new ...), level.removeObject(id), engine.loadLevel(key).
\* An object the game constructs is one nothing refers to yet.
SeqSet2(f) == UNION {SeqSet(f[l]) : l \in DOMAIN f}
TraceObjs(t) == {t[i].obj : i \in 1..Len(t)} \ {0}
RefsOf(objs, adds, srt, trc) ==
  SeqSet2(objs) \cup SeqSet2(adds) \cup SeqSet(srt) \cup TraceObjs(trc)
Refs == RefsOf(objects, toAdd, sorted, trace)
NoCall == [op |-> "none", obj |-> 0, id |-> ""]
\* (The entity a plain level constructs is the first of those.)
Fresh ==
  IF levelClass = "plain"
  THEN {o \in Objs \ Refs : \A x \in Objs \ Refs : o <= x}
  ELSE Objs \ Refs
AddCalls(l) ==
  IF Len(toAdd[l]) < MaxPending
  THEN {[op |-> "add", obj |-> o, id |-> ""] : o \in Fresh}
  ELSE {}
RemoveCalls(l) ==
  IF Len(toRemove[l]) < MaxPending
  THEN {[op |-> "remove", obj |-> 0, id |-> i] : i \in Ids \ SeqSet(toRemove[l])}
  ELSE {}
LoadCalls == IF nLevels < MaxLevels THEN {[op |-> "load", obj |-> 0, id |-> k] : k \in Keys} ELSE {}
\* removeObject(id) for the id of an entity that is live.
RemoveLiveCalls(l) ==
  {e \in RemoveCalls(l) : \E o \in SeqSet(objects[l]) : ObjId(o) = e.id}
\* The calls of a create or destroy hook, and of an update or draw hook.
QueueCalls(l) ==
  IF levelClass = "plain" THEN {NoCall}
  ELSE {NoCall} \cup AddCalls(l) \cup RemoveCalls(l)
HookCalls(l) ==
  IF levelClass = "plain" THEN {NoCall} \cup RemoveLiveCalls(l)
  ELSE QueueCalls(l) \cup LoadCalls

\* The level after the hook's addObject / removeObject call.
Effect(L, e) ==
  CASE e.op = "add" -> AddObject(L, e.obj)
    [] e.op = "remove" -> RemoveObject(L, e.id)
    [] OTHER -> L

SetLevel(l, L) ==
  /\ objects' = [objects EXCEPT ![l] = L.objects]
  /\ toAdd' = [toAdd EXCEPT ![l] = L.toAdd]
  /\ toRemove' = [toRemove EXCEPT ![l] = L.toRemove]
  /\ inserted' = [inserted EXCEPT ![l] = L.inserted]

\* The per-object history is kept for the objects something still refers to.
Bump(f, S) == [x \in DOMAIN f |-> IF x \in S THEN f[x] + 1 ELSE f[x]]
Collect(destroyed, late) ==
  LET refs == RefsOf(objects', toAdd', sorted', trace')
  IN  /\ objDestroyed' = [o \in Objs |-> IF o \in refs THEN destroyed[o] ELSE 0]
      /\ objLate' = [o \in Objs |-> IF o \in refs THEN late[o] ELSE FALSE]

\* --------------------------------------- BasedLevel: _destroy and _resize
\* An entry of cascade: the hook, the level, the object (0: the level's own
\* hook), and the number of entities the level's Map holds when it is invoked.
Cv(kind, l, o, n) == [hook |-> kind, level |-> l, obj |-> o, held |-> n]

\* The mutant of _destroy(): the level's own hook first.
DestroyHooksLevelFirst(l, objs) ==
  <<Cv("levelDestroy", l, 0, Len(objs))>>
    \o [i \in 1..Len(objs) |-> Cv("destroy", l, objs[i], Len(objs))]

\* _destroy(): obj.destroy() for every value of the Map, in Map order; the Map
\* cleared; this.destroy().
DestroyHooks(l, objs) ==
  [i \in 1..Len(objs) |-> Cv("destroy", l, objs[i], Len(objs))]
    \o <<Cv("levelDestroy", l, 0, 0)>>

\* _resize(): obj.resize() for every value of the Map, in Map order;
\* this.resize().
ResizeHooks(l, objs) ==
  [i \in 1..Len(objs) |-> Cv("resize", l, objs[i], Len(objs))]
    \o <<Cv("levelResize", l, 0, Len(objs))>>

\* No _destroy and no _resize in this step, which runs a hook or a tick.
NoCascade == cascade' = <<>>

\* ------------------------------------------------- BasedEngine: loadLevel
\* requestAnimationFrame(this._gameLoop) assigned to _animFrame: the callback
\* _animFrame named before, if still pending, stays pending.
RequestFrame ==
  /\ rafOther' = rafOther + (IF rafLatest THEN 1 ELSE 0)
  /\ rafLatest' = TRUE

\* The mutants of Outgoing and LevelUpdateDue.
OutgoingNone(cur, new) == 0
LevelUpdateAlways == current # 0

\* The level whose _destroy loadLevel calls: the one that is current when the
\* call is made, before the new instance is assigned.
Outgoing(cur, new) == cur

\* The entities whose destroy hook a loadLevel made now invokes.
Torn ==
  LET out == Outgoing(current, nLevels + 1)
  IN  IF out = 0 THEN {} ELSE SeqSet(objects[out])
Killed(e) == IF e.op = "load" THEN Torn ELSE {}

\* The synchronous part of loadLevel(key) for a registered key, up to the
\* await of preload() inside _init(): the loading flag, the loading message
\* and progress reset, _destroy() of the
\* outgoing level (every live entity's destroy hook, the Map cleared, the
\* level's destroy hook, _initialized reset), the new instance made current,
\* and its preload() begun.  Called between tasks, nothing refers to the
\* outgoing level afterwards, and its pending requests go with it.
LoadLevelSync(key, fromStart) ==
  LET n == nLevels + 1
      out == Outgoing(current, n)
      gone == IF pc = "idle" THEN {out} ELSE {}
  IN
  /\ nLevels < MaxLevels
  /\ isLoading' = TRUE
  /\ cascade' = (IF out = 0 THEN <<>> ELSE DestroyHooks(out, objects[out]))
  /\ loadingMessage' = "Loading..."
  /\ loadingProgress' = Num(0)
  /\ objects' = [l \in Levels |-> IF l = out THEN <<>> ELSE objects[l]]
  /\ inserted' = [l \in Levels |-> IF l = out THEN <<>> ELSE inserted[l]]
  /\ toAdd' = [l \in Levels |-> IF l \in gone THEN <<>> ELSE toAdd[l]]
  /\ toRemove' = [l \in Levels |-> IF l \in gone THEN <<>> ELSE toRemove[l]]
  /\ lvDestroyed' = Bump(lvDestroyed, {out} \cap Levels)
  /\ initialized' = [l \in Levels |-> IF l = out THEN FALSE ELSE initialized[l]]
  /\ nLevels' = n
  /\ current' = n
  /\ currentKey' = key
  /\ loadStage' = [loadStage EXCEPT ![n] = "preload"]
  /\ startWaits' = [startWaits EXCEPT ![n] = fromStart]
  /\ callLog' = [callLog EXCEPT ![n] =
                   <<"loading">> \o (IF out = 0 THEN <<>> ELSE <<"destroy">>)
                     \o <<"construct", "preload">>]

\* A hook of level l makes call e.
HookCall(l, e) ==
  IF e.op = "load"
  THEN LoadLevelSync(e.id, FALSE)
  ELSE /\ SetLevel(l, Effect(LevelRec(l), e))
       /\ NoCascade
       /\ UNCHANGED loadVars

\* No task is running, and no continuation of a settled promise is queued
\* (the host runs those before any other task).
Idle == pc = "idle"
Quiet == Idle /\ \A l \in Levels : loadStage[l] \notin {"settled", "rejected"}

\* The mutant of loadLevel(): the key not looked up.
LoadLevelAnyKey(key) ==
  /\ Quiet
  /\ LoadLevelSync(key, FALSE)
  /\ UNCHANGED <<engineVars, tickVars, lvLate, hostVars>>
  /\ Collect(Bump(objDestroyed, Torn), objLate)

\* loadLevel(key) called by the host page (a DOM handler, a timer): nothing
\* but a console message for a key that is not registered.
LoadLevel(key) ==
  /\ Quiet
  /\ IF key \in Keys
     THEN /\ LoadLevelSync(key, FALSE)
          /\ UNCHANGED <<engineVars, tickVars, lvLate, hostVars>>
          /\ Collect(Bump(objDestroyed, Torn), objLate)
     ELSE UNCHANGED vars

\* reloadLevel(): loadLevel(this._currentLevelKey) when a key is set.
ReloadLevel ==
  /\ Quiet
  /\ IF currentKey # ""
     THEN /\ LoadLevelSync(currentKey, FALSE)
          /\ UNCHANGED <<engineVars, tickVars, lvLate, hostVars>>
          /\ Collect(Bump(objDestroyed, Torn), objLate)
     ELSE UNCHANGED vars

\* The mutant of start(): the running flag not looked at.
StartAnyway(key) ==
  /\ Quiet
  /\ running' = TRUE
  /\ lastTime' = now
  /\ UNCHANGED <<tickVars, lvLate, levelClass, now, delta, inputVars, edgeTicks, camera,
                 gameVars>>
  /\ IF key \in Keys
     THEN /\ LoadLevelSync(key, TRUE)
          /\ UNCHANGED <<rafLatest, rafOther>>
          /\ Collect(Bump(objDestroyed, Torn), objLate)
     ELSE /\ RequestFrame
          /\ UNCHANGED cascade
          /\ UNCHANGED <<loadVars, setVars, objDestroyed, objLate>>

\* start(initialLevel): nothing when running; else the running flag, the clock,
\* loadLevel(initialLevel), and after it the first frame request.  With an
\* unregistered key loadLevel returns at once and the frame is requested.
Start(key) ==
  /\ Quiet
  /\ IF running THEN UNCHANGED vars
     ELSE /\ running' = TRUE
          /\ lastTime' = now
          /\ UNCHANGED <<tickVars, lvLate, levelClass, now, delta, inputVars, edgeTicks, camera,
                         gameVars>>
          /\ IF key \in Keys
             THEN /\ LoadLevelSync(key, TRUE)
                  /\ UNCHANGED <<rafLatest, rafOther>>
                  /\ Collect(Bump(objDestroyed, Torn), objLate)
             ELSE /\ RequestFrame
                  /\ UNCHANGED cascade
                  /\ UNCHANGED <<loadVars, setVars, objDestroyed, objLate>>

\* The mutant of stop().
StopFlagOnly ==
  /\ Quiet
  /\ running' = FALSE
  /\ UNCHANGED <<rafLatest, rafOther, loadVars, setVars, tickVars, objDestroyed, objLate,
                 lvLate, hostVars, cascade>>

\* Another mutant of stop(): the pending loads given up.
StopAborts ==
  /\ Quiet
  /\ running' = FALSE
  /\ rafLatest' = FALSE
  /\ loadStage' = [l \in Levels |-> IF loadStage[l] = "preload" THEN "done" ELSE loadStage[l]]
  /\ isLoading' = FALSE
  /\ UNCHANGED <<rafOther, current, currentKey, nLevels, startWaits, initialized,
                 callLog, lvDestroyed, loadingProgress, loadingMessage, setVars,
                 tickVars, objDestroyed, objLate, lvLate, hostVars, cascade>>

\* stop(): the running flag cleared, the frame _animFrame names cancelled.
Stop ==
  /\ Quiet
  /\ running' = FALSE
  /\ rafLatest' = FALSE
  /\ UNCHANGED <<rafOther, loadVars, setVars, tickVars, objDestroyed, objLate, lvLate,
                 hostVars, cascade>>

\* The rest of _init() once preload() has resolved: create(), _initialized.
\* (What the create hook of a level that is no longer current requests is
\* never drained: nothing refers to that level.)
PreloadResolve(l) ==
  /\ Quiet
  /\ loadStage[l] = "preload"
  /\ \E e \in {NoCall} \cup AddCalls(l) :
       IF l = current
       THEN SetLevel(l, Effect(LevelRec(l), e))
       ELSE UNCHANGED setVars
  /\ initialized' = [initialized EXCEPT ![l] = TRUE]
  /\ loadStage' = [loadStage EXCEPT ![l] = "settled"]
  /\ callLog' = [callLog EXCEPT ![l] = @ \o <<"preloaded", "create">>]
  /\ lvLate' = [lvLate EXCEPT ![l] = @ \/ lvDestroyed[l] > 0]
  /\ NoCascade
  /\ UNCHANGED <<engineVars, current, currentKey, isLoading, nLevels, startWaits,
                 lvDestroyed, tickVars, objDestroyed, objLate, loadingProgress,
                 loadingMessage, hostVars>>

\* preload() rejects: _init() throws before create().
PreloadReject(l) ==
  /\ Quiet
  /\ loadStage[l] = "preload"
  /\ loadStage' = [loadStage EXCEPT ![l] = "rejected"]
  /\ callLog' = [callLog EXCEPT ![l] = Append(@, "rejected")]
  /\ NoCascade
  /\ UNCHANGED <<engineVars, current, currentKey, isLoading, nLevels, startWaits,
                 initialized, lvDestroyed, setVars, tickVars, objDestroyed, objLate,
                 lvLate, loadingProgress, loadingMessage, hostVars>>

\* preload() resolves and create() throws: the hook has run, as far as it got,
\* and _init() throws before it sets _initialized.
CreateThrows(l) ==
  /\ Quiet
  /\ loadStage[l] = "preload"
  /\ \E e \in {NoCall} \cup AddCalls(l) :
       IF l = current
       THEN SetLevel(l, Effect(LevelRec(l), e))
       ELSE UNCHANGED setVars
  /\ loadStage' = [loadStage EXCEPT ![l] = "rejected"]
  /\ callLog' = [callLog EXCEPT ![l] = @ \o <<"preloaded", "create", "thrown">>]
  /\ lvLate' = [lvLate EXCEPT ![l] = @ \/ lvDestroyed[l] > 0]
  /\ NoCascade
  /\ UNCHANGED <<engineVars, current, currentKey, isLoading, nLevels, startWaits,
                 initialized, lvDestroyed, tickVars, objDestroyed, objLate,
                 loadingProgress, loadingMessage, hostVars>>

\* setLoadingProgress(progress, message), called by game code (a level's
\* preload as it goes, or anything else that holds the engine).
SetLoadingProgress(progress, message) ==
  /\ Quiet
  /\ loadingProgress' = MathMax(Num(0), MathMin(Num(10), progress))
  /\ loadingMessage' = IF message # "" THEN message ELSE loadingMessage
  /\ UNCHANGED <<engineVars, current, currentKey, isLoading, nLevels, loadStage,
                 startWaits, initialized, callLog, lvDestroyed, setVars,
                 tickVars, objDestroyed, objLate, lvLate, hostVars, cascade>>

\* The mutant of the rest of loadLevel: without the catch, what _init() threw
\* ends the call, and with it a start() that awaits it.
LoadResumeNoCatch(l) ==
  /\ Idle
  /\ loadStage[l] \in {"settled", "rejected"}
  /\ isLoading' = (loadStage[l] = "rejected")
  /\ loadStage' = [loadStage EXCEPT ![l] = "done"]
  /\ IF loadStage[l] = "settled"
     THEN /\ callLog' = [callLog EXCEPT ![l] = @ \o <<"resize", "loaded">>]
          /\ lvLate' = [lvLate EXCEPT ![current] = @ \/ lvDestroyed[current] > 0]
          /\ cascade' = ResizeHooks(current, objects[current])
     ELSE /\ UNCHANGED <<callLog, lvLate>>
          /\ NoCascade
  /\ IF startWaits[l] /\ loadStage[l] = "settled"
     THEN RequestFrame ELSE UNCHANGED <<rafLatest, rafOther>>
  /\ UNCHANGED <<running, current, currentKey, nLevels, startWaits, initialized,
                 lvDestroyed, setVars, tickVars, objDestroyed, objLate,
                 loadingProgress, loadingMessage, hostVars>>

\* The rest of loadLevel once _init() has settled: _resize() of whatever level
\* is current now (every live entity's resize hook, then the level's) unless
\* _init() threw, the loading flag cleared; then the rest of a start() that
\* awaited the call.
LoadResume(l) ==
  /\ Idle
  /\ loadStage[l] \in {"settled", "rejected"}
  /\ isLoading' = FALSE
  /\ loadStage' = [loadStage EXCEPT ![l] = "done"]
  /\ IF loadStage[l] = "settled"
     THEN /\ callLog' = [callLog EXCEPT ![l] = @ \o <<"resize", "loaded">>]
          /\ lvLate' = [lvLate EXCEPT ![current] = @ \/ lvDestroyed[current] > 0]
          /\ cascade' = ResizeHooks(current, objects[current])
     ELSE /\ callLog' = [callLog EXCEPT ![l] = Append(@, "loaded")]
          /\ UNCHANGED lvLate
          /\ NoCascade
  /\ IF startWaits[l] THEN RequestFrame ELSE UNCHANGED <<rafLatest, rafOther>>
  /\ UNCHANGED <<running, current, currentKey, nLevels, startWaits, initialized,
                 lvDestroyed, setVars, tickVars, objDestroyed, objLate,
                 loadingProgress, loadingMessage, hostVars>>

\* ------------------------------------------------------- the input manager
\* The state of the InputManager, as one value.
Input ==
  [keys |-> keys, justPressed |-> keysJustPressed, justReleased |-> keysJustReleased,
   mouse |-> mouse]
SetInput(I) ==
  /\ keys' = I.keys
  /\ keysJustPressed' = I.justPressed
  /\ keysJustReleased' = I.justReleased
  /\ mouse' = I.mouse

\* The mutants of the frame delta and of InputManager.update.
DeltaUncapped(currentTime, last) == currentTime - last
UpdateNothing(I) == I

\* InputManager.update(): the one-shot states cleared, what is held kept.
Update(I) ==
  [I EXCEPT !.justPressed = {}, !.justReleased = {},
            !.mouse = Mouse(@.down, FALSE, FALSE)]

\* keyPressed(code), keyReleased(code), pointerPressed, pointerReleased.
KeyPressed(I, code) == code \in I.justPressed
KeyReleased(I, code) == code \in I.justReleased
PointerPressed(I) == I.mouse.justPressed
PointerReleased(I) == I.mouse.justReleased
\* A one-shot state is set (for some key code).
EdgeSet(I, e) ==
  CASE e = "keyPressed" -> \E c \in Codes : KeyPressed(I, c)
    [] e = "keyReleased" -> \E c \in Codes : KeyReleased(I, c)
    [] e = "pointerPressed" -> PointerPressed(I)
    [] OTHER -> PointerReleased(I)
\* An event has just recorded the one-shot states in `set`.
Recorded(set) == edgeTicks' = [e \in Edges |-> IF e \in set THEN 0 ELSE edgeTicks[e]]

\* ---------------------------------------------------------- the frame tick
\* Math.min(currentTime - this._lastTime, 0.1 s), in units of time.
Delta(currentTime, last) ==
  IF currentTime - last <= DeltaCap THEN currentTime - last ELSE DeltaCap

\* `if (this._currentLevel && !this._isLoading)` of BasedEngine._update.
LevelUpdateDue == current # 0 /\ ~isLoading

\* _gameLoop(currentTime), up to the call of Level._update: a pending frame
\* callback fires (the oldest first); nothing happens unless running; else the
\* delta and _lastTime, Camera.update, and Level._update if there is a level
\* and the engine is not loading.  (_time and the frames-per-second counters,
\* which nothing but their getters reads, are left out.)
GameLoop ==
  /\ Quiet
  /\ rafLatest \/ rafOther > 0
  /\ IF rafOther > 0
     THEN rafOther' = rafOther - 1 /\ UNCHANGED rafLatest
     ELSE rafLatest' = FALSE /\ UNCHANGED rafOther
  /\ IF ~running
     THEN /\ phases' = <<>>
          /\ UNCHANGED <<pc, lvl, idx, lastTime, delta, edgeTicks, camera>>
     ELSE /\ delta' = Delta(now, lastTime)
          /\ lastTime' = now
          /\ \E rx, ry \in Randoms : camera' = CameraUpdate(camera, delta', rx, ry)
          /\ edgeTicks' = [e \in Edges |->
                             IF EdgeSet(Input, e) /\ edgeTicks[e] < 2
                             THEN edgeTicks[e] + 1 ELSE edgeTicks[e]]
          /\ IF LevelUpdateDue
             THEN /\ phases' = <<"camera", "update">>
                  /\ pc' = "drainAdd" /\ lvl' = current /\ idx' = 1
             ELSE /\ phases' = <<"camera">>
                  /\ pc' = "render" /\ lvl' = 0 /\ idx' = 0
  /\ NoCascade
  /\ UNCHANGED <<running, loadVars, setVars, sorted, trace, objDestroyed, objLate, lvLate,
                 levelClass, now, inputVars, gameVars>>

\* Level._update, first loop: one pass of `for (const obj of _objectsToAdd)`:
\* the object is set in the Map, then its create hook runs.  The loop reads the
\* array as it is now, so an object the hook adds is reached by the same loop.
DrainAdd ==
  /\ pc = "drainAdd"
  /\ idx <= Len(toAdd[lvl])
  /\ LET o == toAdd[lvl][idx]
         L == Inserted(LevelRec(lvl), o)
     IN  /\ trace' = Append(trace, Ev("create", lvl, o, L.objects))
         /\ \E e \in QueueCalls(lvl) : SetLevel(lvl, Effect(L, e))
  /\ idx' = idx + 1
  /\ NoCascade
  /\ UNCHANGED <<hostVars, engineVars, loadVars, pc, lvl, sorted, phases, lvLate>>
  /\ Collect(objDestroyed, objLate)

\* this._objectsToAdd = []
DrainAddDone ==
  /\ pc = "drainAdd"
  /\ idx > Len(toAdd[lvl])
  /\ toAdd' = [toAdd EXCEPT ![lvl] = <<>>]
  /\ pc' = "drainRemove"
  /\ idx' = 1
  /\ NoCascade
  /\ UNCHANGED <<hostVars, engineVars, loadVars, objects, toRemove, inserted, lvl, sorted,
                 phases, trace, lvLate>>
  /\ Collect(objDestroyed, objLate)

\* Level._update, second loop: one pass of `for (const id of _objectsToRemove)`:
\* if the Map holds the id, the entity's destroy hook runs and the entry is
\* deleted.  An id the hook adds to the Set is reached by the same loop.
DrainRemove ==
  /\ pc = "drainRemove"
  /\ idx <= Len(toRemove[lvl])
  /\ LET id == toRemove[lvl][idx]
         o == GetObject(LevelRec(lvl), id)
     IN  IF o # 0
         THEN /\ trace' = Append(trace, Ev("destroy", lvl, o, objects[lvl]))
              /\ \E e \in QueueCalls(lvl) :
                   SetLevel(lvl, Erased(Effect(LevelRec(lvl), e), id))
              /\ UNCHANGED sorted
              /\ Collect(Bump(objDestroyed, {o}), objLate)
         ELSE UNCHANGED <<setVars, sorted, trace, objDestroyed, objLate>>
  /\ idx' = idx + 1
  /\ NoCascade
  /\ UNCHANGED <<hostVars, engineVars, loadVars, pc, lvl, phases, lvLate>>

\* The mutant of the end of the drain: the pending-add array reset here, after
\* the remove loop, and not between the two loops.
DrainRemoveDoneResetsAdds ==
  /\ pc = "drainRemove"
  /\ idx > Len(toRemove[lvl])
  /\ toRemove' = [toRemove EXCEPT ![lvl] = <<>>]
  /\ toAdd' = [toAdd EXCEPT ![lvl] = <<>>]
  /\ pc' = "levelUpdate"
  /\ idx' = 0
  /\ NoCascade
  /\ UNCHANGED <<hostVars, engineVars, loadVars, objects, inserted, lvl, sorted,
                 phases, trace, objDestroyed, objLate, lvLate>>

\* this._objectsToRemove.clear()
DrainRemoveDone ==
  /\ pc = "drainRemove"
  /\ idx > Len(toRemove[lvl])
  /\ toRemove' = [toRemove EXCEPT ![lvl] = <<>>]
  /\ pc' = "levelUpdate"
  /\ idx' = 0
  /\ NoCascade
  /\ UNCHANGED <<hostVars, engineVars, loadVars, objects, toAdd, inserted, lvl, sorted,
                 phases, trace, objDestroyed, objLate, lvLate>>

\* this.update(delta): the level's own update hook.
LevelUpdate ==
  /\ pc = "levelUpdate"
  /\ trace' = Append(trace, Ev("levelUpdate", lvl, 0, objects[lvl]))
  /\ lvLate' = [lvLate EXCEPT ![lvl] = @ \/ lvDestroyed[lvl] > 0]
  /\ pc' = "entityUpdate"
  /\ idx' = 1
  /\ UNCHANGED <<hostVars, engineVars, lvl, sorted, phases>>
  /\ \E e \in HookCalls(lvl) :
       /\ HookCall(lvl, e)
       /\ Collect(Bump(objDestroyed, Killed(e)), objLate)

\* One pass of `for (const obj of this._objects.values())`: the update hook of
\* an active entity.  The iterator reads the Map as it is now: after a clear()
\* it is done.
EntityUpdate ==
  /\ pc = "entityUpdate"
  /\ idx <= Len(objects[lvl])
  /\ idx' = idx + 1
  /\ UNCHANGED <<hostVars, engineVars, pc, lvl, sorted, phases, lvLate>>
  /\ LET o == objects[lvl][idx]
     IN  IF ObjActive(o)
         THEN /\ trace' = Append(trace, Ev("update", lvl, o, objects[lvl]))
              /\ \E e \in HookCalls(lvl) :
                   /\ HookCall(lvl, e)
                   /\ Collect(Bump(objDestroyed, Killed(e)),
                              [objLate EXCEPT ![o] = @ \/ objDestroyed[o] > 0])
         ELSE NoCascade /\ UNCHANGED <<loadVars, setVars, trace, objDestroyed, objLate>>

\* Level._update and Engine._update return.
UpdateDone ==
  /\ pc = "entityUpdate"
  /\ idx > Len(objects[lvl])
  /\ pc' = "render"
  /\ lvl' = 0
  /\ idx' = 0
  /\ trace' = <<>>
  /\ NoCascade
  /\ UNCHANGED <<hostVars, engineVars, loadVars, setVars, sorted, phases, lvLate>>
  /\ Collect(objDestroyed, objLate)

\* _render(), up to the call of Level._draw: the canvas cleared; the loading
\* screen and nothing else while loading; nothing without a level.
Render ==
  /\ pc = "render"
  /\ IF isLoading
     THEN /\ phases' = phases \o <<"clear", "loadingScreen">>
          /\ pc' = "flush"
          /\ UNCHANGED lvl
     ELSE IF current = 0
     THEN /\ phases' = phases \o <<"clear">>
          /\ pc' = "flush"
          /\ UNCHANGED lvl
     ELSE /\ phases' = phases \o <<"clear", "level">>
          /\ pc' = "levelDraw"
          /\ lvl' = current
  /\ NoCascade
  /\ UNCHANGED <<hostVars, engineVars, loadVars, setVars, idx, sorted, trace,
                 objDestroyed, objLate, lvLate>>

\* Level._draw: this.draw(draw), the level's world-draw hook, and after it the
\* visible entities collected and sorted.
LevelDraw ==
  /\ pc = "levelDraw"
  /\ trace' = Append(trace, Ev("levelDraw", lvl, 0, objects[lvl]))
  /\ lvLate' = [lvLate EXCEPT ![lvl] = @ \/ lvDestroyed[lvl] > 0]
  /\ pc' = "entityDraw"
  /\ idx' = 1
  /\ UNCHANGED <<hostVars, engineVars, lvl, phases>>
  /\ \E e \in HookCalls(lvl) :
       /\ HookCall(lvl, e)
       /\ sorted' = SortedVisible(objects'[lvl])
       /\ Collect(Bump(objDestroyed, Killed(e)), objLate)

\* One pass of `for (const obj of sortedObjects)`: obj.draw(draw).
EntityDraw ==
  /\ pc = "entityDraw"
  /\ idx <= Len(sorted)
  /\ idx' = idx + 1
  /\ UNCHANGED <<hostVars, engineVars, pc, lvl, sorted, phases, lvLate>>
  /\ LET o == sorted[idx]
     IN  /\ trace' = Append(trace, Ev("draw", lvl, o, objects[lvl]))
         /\ \E e \in HookCalls(lvl) :
              /\ HookCall(lvl, e)
              /\ Collect(Bump(objDestroyed, Killed(e)),
                         [objLate EXCEPT ![o] = @ \/ objDestroyed[o] > 0])

\* Level._draw returns; _render calls this._currentLevel._drawUI, which
\* collects and sorts the visible entities of that level.
BeginDrawUI ==
  /\ pc = "entityDraw"
  /\ idx > Len(sorted)
  /\ lvl' = current
  /\ sorted' = SortedVisible(objects[current])
  /\ pc' = "entityDrawUI"
  /\ idx' = 1
  /\ NoCascade
  /\ UNCHANGED <<hostVars, engineVars, loadVars, setVars, phases, trace, lvLate>>
  /\ Collect(objDestroyed, objLate)

\* One pass of `for (const obj of sortedObjects)`: obj.drawUI(draw).
EntityDrawUI ==
  /\ pc = "entityDrawUI"
  /\ idx <= Len(sorted)
  /\ idx' = idx + 1
  /\ UNCHANGED <<hostVars, engineVars, pc, lvl, sorted, phases, lvLate>>
  /\ LET o == sorted[idx]
     IN  /\ trace' = Append(trace, Ev("drawUI", lvl, o, objects[lvl]))
         /\ \E e \in HookCalls(lvl) :
              /\ HookCall(lvl, e)
              /\ Collect(Bump(objDestroyed, Killed(e)),
                         [objLate EXCEPT ![o] = @ \/ objDestroyed[o] > 0])

\* this.drawUI(draw): the level's own UI hook, after the entities'; _drawUI
\* and _render return.
LevelDrawUI ==
  /\ pc = "entityDrawUI"
  /\ idx > Len(sorted)
  /\ trace' = Append(trace, Ev("levelDrawUI", lvl, 0, objects[lvl]))
  /\ lvLate' = [lvLate EXCEPT ![lvl] = @ \/ lvDestroyed[lvl] > 0]
  /\ pc' = "flush"
  /\ sorted' = <<>>
  /\ UNCHANGED <<hostVars, engineVars, lvl, idx, phases>>
  /\ \E e \in HookCalls(lvl) :
       /\ HookCall(lvl, e)
       /\ Collect(Bump(objDestroyed, Killed(e)), objLate)

\* this._input.update(): the one-shot input state cleared.
InputUpdate ==
  /\ pc = "flush"
  /\ phases' = Append(phases, "flush")
  /\ trace' = <<>>
  /\ pc' = "schedule"
  /\ SetInput(Update(Input))
  /\ edgeTicks' = [e \in Edges |-> IF EdgeSet(Update(Input), e) THEN edgeTicks[e] ELSE 0]
  /\ NoCascade
  /\ UNCHANGED <<engineVars, loadVars, setVars, lvl, idx, sorted, lvLate, levelClass,
                 clockVars, camera, gameVars>>
  /\ Collect(objDestroyed, objLate)

\* A level nothing refers to between tasks: not the current one, and no
\* continuation of a loadLevel call holds it.
Gone(l) == l # current /\ loadStage[l] \in {"none", "done"}

\* The mutant of the frame request that ends a tick: none while loading.
NextFrameUnlessLoading ==
  /\ pc = "schedule"
  /\ IF isLoading THEN UNCHANGED <<rafLatest, rafOther>> ELSE RequestFrame
  /\ phases' = Append(phases, "schedule")
  /\ trace' = <<>>
  /\ pc' = "idle"
  /\ lvl' = 0
  /\ idx' = 0
  /\ sorted' = <<>>
  /\ toAdd' = [l \in Levels |-> IF l = current THEN toAdd[l] ELSE <<>>]
  /\ toRemove' = [l \in Levels |-> IF l = current THEN toRemove[l] ELSE <<>>]
  /\ initialized' = [l \in Levels |-> IF Gone(l) THEN FALSE ELSE initialized[l]]
  /\ startWaits' = [l \in Levels |-> IF Gone(l) THEN FALSE ELSE startWaits[l]]
  /\ callLog' = [l \in Levels |-> IF Gone(l) THEN <<>> ELSE callLog[l]]
  /\ lvDestroyed' = [l \in Levels |-> IF Gone(l) THEN 0 ELSE lvDestroyed[l]]
  /\ lvLate' = [l \in Levels |-> IF Gone(l) THEN FALSE ELSE lvLate[l]]
  /\ NoCascade
  /\ UNCHANGED <<running, current, currentKey, isLoading, nLevels, loadStage,
                 objects, inserted, loadingProgress, loadingMessage, hostVars>>
  /\ Collect(objDestroyed, objLate)

\* this._animFrame = requestAnimationFrame(this._gameLoop); the task ends, and
\* with it every reference the tick held: a level that is not current is not
\* updated again, and what is known of a level nothing refers to is dropped.
NextFrame ==
  /\ pc = "schedule"
  /\ RequestFrame
  /\ phases' = Append(phases, "schedule")
  /\ trace' = <<>>
  /\ pc' = "idle"
  /\ lvl' = 0
  /\ idx' = 0
  /\ sorted' = <<>>
  /\ toAdd' = [l \in Levels |-> IF l = current THEN toAdd[l] ELSE <<>>]
  /\ toRemove' = [l \in Levels |-> IF l = current THEN toRemove[l] ELSE <<>>]
  /\ initialized' = [l \in Levels |-> IF Gone(l) THEN FALSE ELSE initialized[l]]
  /\ startWaits' = [l \in Levels |-> IF Gone(l) THEN FALSE ELSE startWaits[l]]
  /\ callLog' = [l \in Levels |-> IF Gone(l) THEN <<>> ELSE callLog[l]]
  /\ lvDestroyed' = [l \in Levels |-> IF Gone(l) THEN 0 ELSE lvDestroyed[l]]
  /\ lvLate' = [l \in Levels |-> IF Gone(l) THEN FALSE ELSE lvLate[l]]
  /\ NoCascade
  /\ UNCHANGED <<running, current, currentKey, isLoading, nLevels, loadStage,
                 objects, inserted, loadingProgress, loadingMessage, hostVars>>
  /\ Collect(objDestroyed, objLate)

\* ------------------------------------------------------------- the host
\* Time passes between two tasks.
Elapse(d) ==
  /\ Idle
  /\ now + d <= MaxNow
  /\ now' = now + d
  /\ UNCHANGED <<engineVars, loadVars, setVars, tickVars, objDestroyed, objLate, lvLate,
                 levelClass, lastTime, delta, inputVars, edgeTicks, cascade, camera, gameVars>>

\* What a call of the camera by game code leaves alone.
CameraOnly ==
  UNCHANGED <<engineVars, loadVars, setVars, tickVars, objDestroyed, objLate, lvLate,
              levelClass, clockVars, inputVars, edgeTicks, cascade, gameVars>>

\* camera.setPosition(x, y)
SetPosition(p) ==
  /\ Quiet
  /\ camera' = [camera EXCEPT !.x = p[1], !.y = p[2], !.targetX = p[1], !.targetY = p[2]]
  /\ CameraOnly

\* camera.follow(target), the speed the default
Follow(p) ==
  /\ Quiet
  /\ camera' = [camera EXCEPT !.followTarget = p, !.followSpeed = 5]
  /\ CameraOnly

\* camera.setZoomImmediate(zoom): Math.max(0.1, zoom)
SetZoomImmediate(z) ==
  /\ Quiet
  /\ camera' = [camera EXCEPT !.zoom = IntMax(1, z), !.targetZoom = IntMax(1, z)]
  /\ CameraOnly

\* camera.setBounds(width, height)
SetBounds(b) ==
  /\ Quiet
  /\ camera' = [camera EXCEPT !.bounds = b]
  /\ CameraOnly

\* camera.shake(intensity)
Shake(intensity) ==
  /\ Quiet
  /\ camera' = [camera EXCEPT !.shakeIntensity = intensity,
                              !.shakeDuration = ShakeDefault, !.shakeTime = 0]
  /\ CameraOnly

\* What a call of the physics world, or an event of its simulation, leaves alone.
PhysicsOnly ==
  UNCHANGED <<engineVars, loadVars, setVars, tickVars, objDestroyed, objLate, lvLate,
              levelClass, clockVars, inputVars, edgeTicks, cascade, camera, squeeze>>

\* createCircle / createRect / createPolygon / createFromVertices: a
\* PhysicsBody with the next id, its Matter body (whose plugin names it) added
\* to the world.
CreateBody ==
  /\ Len(physics.matter) < MaxBodies
  /\ physics' = [physics EXCEPT
                   !.matter = Append(@, physics.nextId),
                   !.nextId = @ + 1,
                   !.collisionStartCallbacks = Append(@, <<>>),
                   !.collisionEndCallbacks = Append(@, <<>>),
                   !.event = "", !.pairs = <<>>, !.notified = <<>>]
  /\ PhysicsOnly

\* Game code adds a Matter body of its own to the world, or clears the plugin
\* of one: a body without a PhysicsBody.
AddMatterBody ==
  /\ Len(physics.matter) < MaxBodies
  /\ physics' = [physics EXCEPT !.matter = Append(@, NoBody),
                                !.event = "", !.pairs = <<>>, !.notified = <<>>]
  /\ PhysicsOnly

\* body.onCollisionStart(callback) / body.onCollisionEnd(callback)
OnCollisionStart(b, callback) ==
  /\ b < physics.nextId
  /\ Len(physics.collisionStartCallbacks[b + 1]) < MaxCallbacks
  /\ physics' = [physics EXCEPT !.collisionStartCallbacks[b + 1] = Append(@, callback),
                                !.event = "", !.pairs = <<>>, !.notified = <<>>]
  /\ PhysicsOnly
OnCollisionEnd(b, callback) ==
  /\ b < physics.nextId
  /\ Len(physics.collisionEndCallbacks[b + 1]) < MaxCallbacks
  /\ physics' = [physics EXCEPT !.collisionEndCallbacks[b + 1] = Append(@, callback),
                                !.event = "", !.pairs = <<>>, !.notified = <<>>]
  /\ PhysicsOnly

\* The simulation emits collisionStart or collisionEnd with some pairs of the
\* bodies in the world, and the world's listener runs.
Collision(kind, pairs) ==
  /\ pairs # <<>>
  /\ physics' = [physics EXCEPT !.event = kind, !.pairs = pairs,
                                !.notified = Notify(physics, kind, pairs, 1)]
  /\ PhysicsOnly

\* What every input event leaves alone.
InputOnly ==
  UNCHANGED <<engineVars, loadVars, setVars, tickVars, objDestroyed, objLate, lvLate,
              levelClass, clockVars, cascade, camera, gameVars>>

\* keydown: a one-shot press unless the key is held already (auto-repeat).
KeyDown(code) ==
  /\ Quiet
  /\ SetInput([Input EXCEPT
                 !.justPressed = IF code \in keys THEN @ ELSE @ \cup {code},
                 !.keys = @ \cup {code}])
  /\ Recorded(IF code \in keys THEN {} ELSE {"keyPressed"})
  /\ InputOnly

\* keyup
KeyUp(code) ==
  /\ Quiet
  /\ SetInput([Input EXCEPT !.keys = @ \ {code}, !.justReleased = @ \cup {code}])
  /\ Recorded({"keyReleased"})
  /\ InputOnly

\* mousedown, or touchstart with a touch
MouseDown ==
  /\ Quiet
  /\ SetInput([Input EXCEPT !.mouse = Mouse(TRUE, TRUE, @.justReleased)])
  /\ Recorded({"pointerPressed"})
  /\ InputOnly

\* mouseup, or touchend with no touch left
MouseUp ==
  /\ Quiet
  /\ SetInput([Input EXCEPT !.mouse = Mouse(FALSE, @.justPressed, TRUE)])
  /\ Recorded({"pointerReleased"})
  /\ InputOnly

\* mouseleave, or touchcancel
MouseLeave ==
  /\ Quiet
  /\ SetInput([Input EXCEPT !.mouse = Mouse(FALSE, @.justPressed, @.justReleased)])
  /\ UNCHANGED edgeTicks
  /\ InputOnly

\* The window is resized: _handleResize() sets the size of the canvas, the
\* camera and the Draw, and calls _resize() of the current level.
HandleResize ==
  /\ Quiet
  /\ IF current # 0
     THEN /\ cascade' = ResizeHooks(current, objects[current])
          /\ lvLate' = [lvLate EXCEPT ![current] = @ \/ lvDestroyed[current] > 0]
          /\ UNCHANGED <<engineVars, loadVars, setVars, tickVars, objDestroyed, objLate,
                         hostVars>>
     ELSE UNCHANGED vars

Next ==
  \/ \E k \in Keys \cup {NoKey} : Start(k)
  \/ Stop
  \/ \E k \in Keys \cup {NoKey} : LoadLevel(k)
  \/ ReloadLevel
  \/ HandleResize
  \/ \E l \in Levels : PreloadResolve(l)
  \/ \E l \in Levels : PreloadReject(l)
  \/ \E l \in Levels : LoadResume(l)
  \/ GameLoop
  \/ DrainAdd
  \/ DrainAddDone
  \/ DrainRemove
  \/ DrainRemoveDone
  \/ LevelUpdate
  \/ EntityUpdate
  \/ UpdateDone
  \/ Render
  \/ LevelDraw
  \/ EntityDraw
  \/ BeginDrawUI
  \/ EntityDrawUI
  \/ LevelDrawUI
  \/ InputUpdate
  \/ NextFrame

Spec == Init /\ [][Next]_vars

\* The engine running plain levels, with the host's clock ...
ClockNext == Next \/ \E d \in 1..MaxElapse : Elapse(d)
ClockSpec == HostInit /\ [][ClockNext]_vars

\* ... with levels whose create hook may throw and game code that reports
\* loading progress ...
LoadNext ==
  \/ Next
  \/ \E l \in Levels : CreateThrows(l)
  \/ \E p \in Progresses, m \in Messages : SetLoadingProgress(p, m)
LoadSpec == HostInit /\ [][LoadNext]_vars

\* ... and with the input events of the page.
InputNext ==
  \/ Next
  \/ \E c \in Codes : KeyDown(c)
  \/ \E c \in Codes : KeyUp(c)
  \/ MouseDown
  \/ MouseUp
  \/ MouseLeave
InputSpec == HostInit /\ [][InputNext]_vars

\* The engine running plain levels whose preload always resolves.
ResolvingNext ==
  \/ \E k \in Keys \cup {NoKey} : Start(k)
  \/ Stop
  \/ \E k \in Keys \cup {NoKey} : LoadLevel(k)
  \/ ReloadLevel
  \/ HandleResize
  \/ \E l \in Levels : PreloadResolve(l)
  \/ \E l \in Levels : LoadResume(l)
  \/ GameLoop
  \/ DrainAdd
  \/ DrainAddDone
  \/ DrainRemove
  \/ DrainRemoveDone
  \/ LevelUpdate
  \/ EntityUpdate
  \/ UpdateDone
  \/ Render
  \/ LevelDraw
  \/ EntityDraw
  \/ BeginDrawUI
  \/ EntityDrawUI
  \/ LevelDrawUI
  \/ InputUpdate
  \/ NextFrame
ResolvingSpec == HostInit /\ [][ResolvingNext]_vars

\* The camera of an engine that is started without a level, with the host's
\* clock and game code that positions, zooms, confines and shakes the camera
\* between two frames.
CameraNext ==
  \/ Start(NoKey)
  \/ Stop
  \/ GameLoop
  \/ Render
  \/ InputUpdate
  \/ NextFrame
  \/ \E d \in 1..MaxElapse : Elapse(d)
  \/ \E p \in Points : SetPosition(p)
  \/ \E p \in Targets : Follow(p)
  \/ \E z \in Zooms : SetZoomImmediate(z)
  \/ \E b \in BoundsArgs : SetBounds(b)
  \/ \E i \in Intensities : Shake(i)
CameraSpec == HostInit /\ [][CameraNext]_vars

\* A physics world, the game code that creates bodies and registers collision
\* callbacks, and the collision events of the simulation.
PairSeqs == UNION {[1..n -> PairsOf(physics)] : n \in 1..MaxPairs}
PhysicsNext ==
  \/ CreateBody
  \/ AddMatterBody
  \/ \E b \in 0..(MaxBodies - 1), c \in Callbacks : OnCollisionStart(b, c)
  \/ \E b \in 0..(MaxBodies - 1), c \in Callbacks : OnCollisionEnd(b, c)
  \/ \E kind \in EventKinds, pairs \in PairSeqs : Collision(kind, pairs)
PhysicsSpec == HostInit /\ [][PhysicsNext]_vars

\* ------------------------------------------------------- the sample game
\* What the sample game's steps leave alone: the engine is followed here by
\* the level it runs (squeeze.key, squeeze.loading) and a frame is one step.
SqueezeOnly ==
  UNCHANGED <<engineVars, loadVars, setVars, tickVars, objDestroyed, objLate, lvLate,
              levelClass, clockVars, cascade, camera, physics>>

\* The mutant of Button.update(): a release over the button counts as a click
\* whether or not the button saw the pointer down before.
ClickedOnRelease(G, I) ==
  IF G.over \in ButtonsOf(G.key) /\ ~I.mouse.down /\ PointerReleased(I)
  THEN G.over ELSE "none"

\* Button.update() of the level's buttons: the button whose onClick is called
\* (hovered, pointer not down, pressed before, pointer released this frame) ...
Clicked(G, I) ==
  IF G.over \in ButtonsOf(G.key) /\ ~I.mouse.down
     /\ G.pressed = G.over /\ PointerReleased(I)
  THEN G.over ELSE "none"
\* ... and the button left with _pressed set: the hovered one, the pointer down.
Pressed(G, I) ==
  IF G.over \in ButtonsOf(G.key) /\ I.mouse.down THEN G.over ELSE "none"

\* engine.loadLevel(key), to its await: _isLoading set, the level destroyed,
\* an instance of the key's class made the current level.
GameLoadLevel(G, key) == [NewLevel(G, key) EXCEPT !.loading = TRUE]

\* ExitDoor.checkPlayer(player): in range and small enough.
CheckPlayer(key, player) == player.inRange /\ player.radius <= ExitMaxRadius(key)

\* SqueezeLevel._completeLevel() and _resetLevel()
CompleteLevel(G) == [G EXCEPT !.gameState = "complete"]
ResetLevel(G) == [G EXCEPT !.player = PlayerStart, !.gameState = "playing"]

\* SqueezeLevel.update(delta): nothing unless playing; then the exits are
\* checked, the reset key, and the buttons are updated.
SqueezeUpdate(G, I) ==
  IF G.gameState # "playing" THEN G
  ELSE LET G1 == IF CheckPlayer(G.key, G.player) THEN CompleteLevel(G) ELSE G
           G2 == IF KeyPressed(I, "KeyR") THEN ResetLevel(G1) ELSE G1
           G3 == IF Clicked(G2, I) = "resetButton" THEN ResetLevel(G2) ELSE G2
       IN  [G3 EXCEPT !.pressed = Pressed(G2, I)]

\* StartScreen.update() and CreditsScreen.update(): the buttons updated.
ScreenUpdate(G, I) ==
  LET c == Clicked(G, I)
      P == [G EXCEPT !.pressed = Pressed(G, I)]
  IN  CASE c = "startButton" -> GameLoadLevel(P, "level-01")
        [] c = "creditsButton" -> GameLoadLevel(P, "credits")
        [] c = "backButton" -> GameLoadLevel(P, "start-screen")
        [] OTHER -> P

\* The update hook of the current level, called unless a load is in progress.
GameUpdate(G, I) ==
  IF G.loading THEN G
  ELSE IF G.key \in SqueezeLevels THEN SqueezeUpdate(G, I) ELSE ScreenUpdate(G, I)

\* Player.update(delta) of a squeeze level that is still current: the radius
\* follows the size keys; the position follows the physics body, which moves
\* only when this frame's SqueezeLevel.update stepped the world and did not
\* reset the player after.
PlayerUpdate(G, H, p) ==
  IF H.key \in SqueezeLevels /\ ~H.loading
  THEN /\ p \in Players
       /\ (G.gameState # "playing" \/ H.player # G.player) => p.inRange = H.player.inRange
  ELSE p = H.player

\* startTheSqueeze(): the levels registered, engine.start('start-screen').
StartTheSqueeze ==
  /\ Quiet
  /\ squeeze.key = ""
  /\ squeeze' = GameLoadLevel(squeeze, "start-screen")
  /\ UNCHANGED <<inputVars, edgeTicks>>
  /\ SqueezeOnly

\* The continuation of loadLevel: create() has run (preload of these levels
\* resolves at once), _isLoading is cleared.
SqueezeLoaded ==
  /\ Quiet
  /\ squeeze.loading
  /\ squeeze' = [squeeze EXCEPT
                   !.loading = FALSE,
                   !.nextLevel = GetNextLevel(squeeze.key),
                   !.player = IF squeeze.key \in SqueezeLevels THEN PlayerStart ELSE @]
  /\ UNCHANGED <<inputVars, edgeTicks>>
  /\ SqueezeOnly

\* One frame of the running engine: the level's update hook, the entities'
\* update, the drawing (which changes nothing), the one-shot input cleared.
SqueezeFrame ==
  /\ Quiet
  /\ squeeze.key # ""
  /\ \E p \in Players \cup {NoPlayer} :
       LET H == GameUpdate(squeeze, Input)
       IN  /\ PlayerUpdate(squeeze, H, p)
           /\ squeeze' = [H EXCEPT !.player = p]
  /\ SetInput(Update(Input))
  /\ edgeTicks' = [e \in Edges |-> 0]
  /\ SqueezeOnly

\* mousemove: the pointer comes over a button, or off the buttons.
MouseMove(spot) ==
  /\ Quiet
  /\ squeeze' = [squeeze EXCEPT !.over = spot]
  /\ UNCHANGED <<inputVars, edgeTicks>>
  /\ SqueezeOnly

\* The sample game with the input events of the page ...
SqueezeNext ==
  \/ StartTheSqueeze
  \/ SqueezeLoaded
  \/ SqueezeFrame
  \/ \E spot \in Spots : MouseMove(spot)
  \/ MouseDown
  \/ MouseUp
  \/ \E c \in Codes : KeyDown(c)
  \/ \E c \in Codes : KeyUp(c)
SqueezeSpec == HostInit /\ [][SqueezeNext]_vars

\* ... whose frames keep coming (every frame requests the next one) and whose
\* loads run to their end (the continuation of a resolved promise is run).
SqueezeFair ==
  /\ SqueezeSpec
  /\ WF_vars(StartTheSqueeze)
  /\ WF_vars(SqueezeLoaded)
  /\ WF_vars(SqueezeFrame)

\* ------------------------------------------------------------ the claims
IsPrefix(s, t) == Len(s) <= Len(t) /\ s = SubSeq(t, 1, Len(s))
Pos(s, x) == CHOOSE i \in 1..Len(s) : s[i] = x
Hooks(kind) == SelectSeq(trace, LAMBDA e : e.hook = kind)
HookObjs(kind) == [i \in 1..Len(Hooks(kind)) |-> Hooks(kind)[i].obj]
LevelNext(l) ==
  [objects |-> objects'[l], toAdd |-> toAdd'[l], toRemove |-> toRemove'[l],
   inserted |-> inserted'[l]]
\* The steps of a tick in which an update, draw or drawUI hook runs.
HookPcs == {"levelUpdate", "entityUpdate", "levelDraw", "entityDraw", "entityDrawUI"}
DrainPcs == {"drainAdd", "drainRemove"}

\* C1: a step in which an update, draw or drawUI hook calls addObject or
\* removeObject leaves the level's live set as it was and only appends the
\* request to the pending collections; a live set changes in no step of a
\* frame but a pass of the two drain loops at the start of Level._update (an
\* add: the object at the loop's position in the pending array is set in the
\* Map; a remove: the id at the loop's position is deleted), or the teardown
\* of the level by loadLevel.
C1_Step ==
  \A l \in Levels :
    /\ (pc \in HookPcs /\ nLevels' = nLevels) =>
         /\ objects'[l] = objects[l]
         /\ IsPrefix(toAdd[l], toAdd'[l])
         /\ IsPrefix(toRemove[l], toRemove'[l])
    /\ objects'[l] # objects[l] =>
         \/ /\ pc = "drainAdd" /\ l = lvl /\ idx <= Len(toAdd[l])
            /\ objects'[l] = MapSet(objects[l], toAdd[l][idx])
         \/ /\ pc = "drainRemove" /\ l = lvl /\ idx <= Len(toRemove[l])
            /\ objects'[l] = MapDelete(objects[l], toRemove[l][idx])
         \/ /\ nLevels' = nLevels + 1 /\ l = current
            /\ objects'[l] = <<>>
C1_Deferred == [][C1_Step]_vars

\* C1 witness: a frame has reached the input flush with two objects added and
\* the removal of a live entity requested by its hooks, after entity draws.
C1_Witness ==
  /\ pc = "flush" /\ lvl # 0 /\ lvl = current
  /\ Len(toAdd[lvl]) = 2
  /\ \E id \in SeqSet(toRemove[lvl]) : MapHas(objects[lvl], id)
  /\ Len(Hooks("draw")) > 0

\* C2: while Level._update runs, the hooks it has invoked so far are, in this
\* order: the create hooks of the pending adds, in the order of the pending
\* array, each finding its object in the live set; the destroy hooks of the
\* entities the pending ids named, each finding its entity still in the live
\* set, and the ids gone from the Map after their pass; the level's update
\* hook, once; the update hooks of the active live entities, in Map order.
\* So when the last loop ends, every active entity of the live set has been
\* updated, those created in this frame included, and none destroyed in it.
UpdatePcs == {"drainAdd", "drainRemove", "levelUpdate", "entityUpdate"}
Rank(kind) ==
  CASE kind = "create" -> 1 [] kind = "destroy" -> 2
    [] kind = "levelUpdate" -> 3 [] kind = "update" -> 4 [] OTHER -> 5
C2_UpdateOrder ==
  pc \in UpdatePcs =>
    LET created == HookObjs("create")
        destroyed == HookObjs("destroy")
        updated == HookObjs("update")
        doneIds == IF pc = "drainRemove" THEN SubSeq(toRemove[lvl], 1, idx - 1) ELSE <<>>
    IN
    /\ \A i \in 1..Len(trace) : Rank(trace[i].hook) <= 4 /\ trace[i].level = lvl
    /\ \A i, j \in 1..Len(trace) : i < j => Rank(trace[i].hook) <= Rank(trace[j].hook)
    /\ Len(Hooks("levelUpdate")) = (IF pc = "entityUpdate" THEN 1 ELSE 0)
    /\ pc \in {"drainAdd", "drainRemove", "levelUpdate"} => updated = <<>>
    /\ pc = "drainAdd" =>
         /\ created = SubSeq(toAdd[lvl], 1, idx - 1)
         /\ destroyed = <<>>
    /\ \A i \in 1..Len(trace) :
         trace[i].hook \in {"create", "destroy", "update"} => trace[i].live
    /\ pc = "drainRemove" =>
         /\ \A i \in 1..Len(doneIds) : ~MapHas(objects[lvl], doneIds[i])
         /\ [i \in 1..Len(destroyed) |-> ObjId(destroyed[i])]
              = SelectSeq(doneIds, LAMBDA id : \E o \in SeqSet(destroyed) : ObjId(o) = id)
    /\ SeqSet(destroyed) \cap SeqSet(objects[lvl]) = {}
    /\ (pc = "entityUpdate" /\ current = lvl) =>
         updated = SelectSeq(SubSeq(objects[lvl], 1, idx - 1), ObjActive)
    /\ (pc = "entityUpdate" /\ current = lvl /\ idx > Len(objects[lvl])) =>
         /\ \A o \in SeqSet(created) \cap SeqSet(objects[lvl]) :
              ObjActive(o) => o \in SeqSet(updated)
         /\ SeqSet(destroyed) \cap SeqSet(updated) = {}

\* C2 witness: the last loop of a Level._update has ended in a frame whose
\* drain created two entities and destroyed one, and an entity created in
\* this frame has had its update.
C2_Witness ==
  /\ pc = "entityUpdate" /\ current = lvl /\ idx > Len(objects[lvl])
  /\ Len(Hooks("create")) >= 2
  /\ Len(Hooks("destroy")) >= 1
  /\ SeqSet(HookObjs("create")) \cap SeqSet(HookObjs("update")) # {}

\* C3: no entity has its destroy hook invoked more than once, and none has
\* an update, draw or drawUI hook invoked after its destroy hook.
C3_DestroyedOnceThenSilent ==
  \A o \in Objs : objDestroyed[o] <= 1 /\ ~objLate[o]

\* C4: what a loadLevel call for a registered key has done so far is a
\* beginning of: loading flag set, destroy of the outgoing level if there is
\* one, construction, preload begun, preload completed, create, resize
\* cascade, loading flag cleared (after a rejected preload: of the same up to
\* the preload, then the flag cleared).  The step that begins the call sets
\* the flag, runs the whole teardown of the level that was current (its
\* destroy hook once, its live set emptied) and makes the new instance
\* current with its preload pending; the step that runs create marks the
\* instance initialised; the step that ends the call leaves the flag cleared.
LoadOrder(first, ok) ==
  <<"loading">> \o (IF first THEN <<>> ELSE <<"destroy">>) \o <<"construct", "preload">>
    \o (IF ok THEN <<"preloaded", "create", "resize", "loaded">> ELSE <<"rejected", "loaded">>)
C4_Begins(l) == callLog[l] = <<>> /\ callLog'[l] # <<>>
C4_Step ==
  \A l \in Levels :
    /\ C4_Begins(l) =>
         /\ l = nLevels + 1 /\ current' = l /\ isLoading'
         /\ loadStage'[l] = "preload" /\ ~initialized'[l]
         /\ current # 0 =>
              /\ lvDestroyed'[current] = lvDestroyed[current] + 1
              /\ objects'[current] = <<>>
              /\ ~initialized'[current]
              /\ callLog'[l][2] = "destroy"
    /\ (Len(callLog'[l]) > Len(callLog[l]) /\ callLog'[l][Len(callLog'[l])] = "create") =>
         initialized'[l] /\ loadStage[l] = "preload"
    /\ (Len(callLog'[l]) > Len(callLog[l]) /\ callLog'[l][Len(callLog'[l])] = "loaded") =>
         ~isLoading'
C4_LoadOrder ==
  /\ [](\A l \in Levels : \E ok \in BOOLEAN : IsPrefix(callLog[l], LoadOrder(l = 1, ok)))
  /\ [][C4_Step]_vars

\* C4 witness: a loadLevel call that replaced a level has done all its steps.
C4_Witness ==
  \E l \in Levels : l > 1 /\ callLog[l] = LoadOrder(FALSE, TRUE) /\ lvDestroyed[l - 1] = 1

\* C5: no level has its create, update, draw, drawUI or resize hook invoked
\* after its destroy hook, and at most one level at a time has been created
\* and not destroyed.
C5_OneActiveLevel ==
  /\ \A l \in Levels : ~lvLate[l]
  /\ Cardinality({l \in Levels : initialized[l]}) <= 1

\* C6: when the entity loop of Level._draw has ended (the level not torn down
\* meanwhile), the draw hooks it invoked are those of the visible entities of
\* the live set, each once, in ascending depth, and those of equal depth in
\* the order in which they were inserted into the live set.
C6_DrawOrder ==
  (pc = "entityDraw" /\ idx > Len(sorted) /\ current = lvl) =>
    LET drawn == HookObjs("draw")
    IN  /\ SeqSet(drawn) = {o \in SeqSet(objects[lvl]) : ObjVisible(o)}
        /\ \A i, j \in 1..Len(drawn) : i < j =>
             /\ drawn[i] # drawn[j]
             /\ ObjDepth(drawn[i]) <= ObjDepth(drawn[j])
             /\ ObjDepth(drawn[i]) = ObjDepth(drawn[j]) =>
                  Pos(inserted[lvl], drawn[i]) < Pos(inserted[lvl], drawn[j])

\* C7: when the render of a frame that shows level content has ended, the
\* hooks it invoked are, in order: the level's draw hook, the entities' draw
\* hooks, the entities' drawUI hooks, the level's drawUI hook; and the drawUI
\* hooks went to the same entities, in the same order, as the draw hooks.
C7_RenderOrder ==
  (pc = "flush" /\ "level" \in SeqSet(phases)) =>
    /\ Len(trace) >= 2
    /\ trace[1].hook = "levelDraw"
    /\ trace[Len(trace)].hook = "levelDrawUI"
    /\ \E n \in 0..Len(trace) :
         /\ \A i \in 2..(Len(trace) - 1) : trace[i].hook = (IF i <= n + 1 THEN "draw" ELSE "drawUI")
    /\ HookObjs("drawUI") = HookObjs("draw")

\* C8: the five queries return entities of the live set and nothing else, in
\* Map order: an object waiting in the pending-add array is in no answer; and
\* a step in which a hook calls addObject or removeObject changes no answer
\* (within a drain loop: the entity a create or destroy hook names in
\* removeObject is still the answer of getObject after the call).
Preds == SUBSET Objs
Answers(L) ==
  [get |-> [id \in Ids |-> GetObject(L, id)],
   all |-> GetObjects(L),
   byTag |-> [t \in Tags |-> GetObjectsByTag(L, t)],
   find |-> [P \in Preds |-> FindObject(L, P)],
   findAll |-> [P \in Preds |-> FindObjects(L, P)]]
Returned(L) ==
  LET A == Answers(L)
  IN  ({A.get[id] : id \in Ids} \cup SeqSet(A.all)
         \cup UNION {SeqSet(A.byTag[t]) : t \in Tags}
         \cup {A.find[P] : P \in Preds}
         \cup UNION {SeqSet(A.findAll[P]) : P \in Preds}) \ {0}
C8_Live(l) ==
  LET L == LevelRec(l)
      live == SeqSet(objects[l])
  IN  /\ Returned(L) = live
      /\ \A o \in SeqSet(toAdd[l]) \ live : o \notin Returned(L)
      /\ \A id \in Ids : GetObject(L, id) # 0 => ObjId(GetObject(L, id)) = id
      /\ \A id \in Ids : (\E o \in live : ObjId(o) = id) => GetObject(L, id) \in live
      /\ \A t \in Tags : SeqSet(GetObjectsByTag(L, t)) = {o \in live : ObjHasTag(o, t)}
      /\ \A P \in Preds :
           /\ SeqSet(FindObjects(L, P)) = live \cap P
           /\ FindObject(L, P) = (IF live \cap P = {} THEN 0 ELSE FindObjects(L, P)[1])
C8_Step ==
  \A l \in Levels :
    LET asked == (SeqSet(toAdd'[l]) \ SeqSet(toAdd[l])) # {}
                   \/ (SeqSet(toRemove'[l]) \ SeqSet(toRemove[l])) # {}
        seen == IF pc = "drainAdd" /\ l = lvl /\ idx <= Len(toAdd[l])
                THEN Inserted(LevelRec(l), toAdd[l][idx])
                ELSE LevelRec(l)
    IN  /\ (asked /\ pc \notin DrainPcs) => Answers(LevelNext(l)) = Answers(LevelRec(l))
        /\ \A id \in SeqSet(toRemove'[l]) \ SeqSet(toRemove[l]) :
             GetObject(LevelNext(l), id) = GetObject(seen, id)
        /\ \A o \in SeqSet(toAdd'[l]) \ SeqSet(toAdd[l]) :
             o \notin Returned(LevelNext(l))
C8_LiveSetOnly == [](\A l \in Levels : C8_Live(l)) /\ [][C8_Step]_vars

\* C8 witness: during the entity draws of a frame, an object is pending that
\* is not live, the id of a live entity is in the pending-remove Set, and a
\* live entity carries the tag asked for.
C8_Witness ==
  /\ pc = "entityDraw" /\ lvl = current
  /\ SeqSet(toAdd[lvl]) \ SeqSet(objects[lvl]) # {}
  /\ \E id \in SeqSet(toRemove[lvl]) : GetObject(LevelRec(lvl), id) # 0
  /\ GetObjectsByTag(LevelRec(lvl), "t") # <<>>

\* C9: what a tick has done so far is a beginning of: Camera.update,
\* Level._update (or not), the canvas cleared, the loading screen or the level
\* content (or neither, without a level), the input flush, the next frame
\* requested.  A tick calls Level._update exactly if there is a level and the
\* engine is not loading when the tick begins; the hooks of Level._update run
\* before the canvas is cleared, those of the render before the input flush.
TickOrder(update, shown) ==
  <<"camera">> \o (IF update THEN <<"update">> ELSE <<>>) \o <<"clear">>
    \o (IF shown = "" THEN <<>> ELSE <<shown>>) \o <<"flush", "schedule">>
C9_Ticks ==
  /\ \E u \in BOOLEAN, shown \in {"", "loadingScreen", "level"} :
       IsPrefix(phases, TickOrder(u, shown))
  /\ pc # "idle" => phases # <<>>
  /\ \A i \in 1..Len(trace) :
       IF Rank(trace[i].hook) <= 4
       THEN phases = <<"camera", "update">>
       ELSE phases = <<"camera", "update", "clear", "level">>
C9_Step ==
  (pc = "idle" /\ pc' # "idle") =>
    /\ running
    /\ ("update" \in SeqSet(phases')) = (current # 0 /\ ~isLoading)
C9_TickOrder == []C9_Ticks /\ [][C9_Step]_vars

\* C9 witness: a tick that updated the level and showed its content has
\* requested the next frame.
C9_Witness ==
  /\ pc = "idle"
  /\ phases = TickOrder(TRUE, "level")
  /\ rafLatest

\* C10: no hook a tick invokes is invoked with the loading flag set.
C10_NoHookWhileLoading ==
  \A i \in 1..Len(trace) : ~trace[i].loading


\* A step that begins a tick: a frame callback fires with the engine running.
TickBegins == pc = "idle" /\ pc' # "idle"

\* C11: the delta of a tick is the time that has passed since _lastTime was
\* set (by the tick before, or by start()), but DeltaCap (0.1 s) if more has
\* passed; it is never negative and never more than DeltaCap; the tick leaves
\* the time of its frame in _lastTime; and no other step changes the delta,
\* so that Camera.update and every hook of the tick are passed this value.
C11_Step ==
  /\ TickBegins =>
       /\ delta' <= now - lastTime
       /\ delta' <= DeltaCap
       /\ delta' = now - lastTime \/ delta' = DeltaCap
       /\ lastTime' = now
  /\ ~TickBegins => delta' = delta
C11_DeltaCapped ==
  /\ [](delta >= 0 /\ delta <= DeltaCap /\ lastTime <= now)
  /\ [][C11_Step]_vars

\* C11 witness: an entity's update hook has run in a tick that began MaxElapse
\* units of time after the clock started, with the delta at its cap.
C11_Witness ==
  /\ pc = "entityUpdate" /\ Len(Hooks("update")) > 0
  /\ delta = DeltaCap /\ lastTime = now /\ now = MaxElapse
  /\ rafOther = 0 /\ nLevels = 1

\* A pending frame callback is pending no longer: it has fired, or stop() has
\* cancelled it.
FrameGone == rafOther' < rafOther \/ (rafLatest /\ ~rafLatest')

\* C12: the step that clears the running flag (stop()) leaves the frame that
\* _animFrame names cancelled and changes nothing else; stop() on an engine
\* that is stopped with that frame cancelled changes nothing at all; while
\* the flag is clear no tick is in progress, and a frame callback that fires
\* does nothing: no camera update, no Level._update, no render (the record
\* of the latest tick stays, or is that of a tick that did nothing), no hook,
\* no input flush and no new frame request; and only start() sets the flag
\* again.
C12_Step ==
  /\ (running /\ ~running') =>
       /\ ~rafLatest'
       /\ UNCHANGED <<rafOther, loadVars, setVars, tickVars, objDestroyed, objLate,
                      lvLate, hostVars>>
  /\ (~running /\ ~rafLatest /\ Stop) => UNCHANGED vars
  /\ (~running /\ ~running' /\ FrameGone) =>
       /\ phases' \in {phases, <<>>} /\ pc' = "idle" /\ trace' = <<>>
       /\ rafOther' <= rafOther /\ (rafLatest' => rafLatest)
       /\ UNCHANGED <<loadVars, setVars, lvl, idx, sorted, objDestroyed, objLate,
                      lvLate, hostVars>>
  /\ (~running /\ running') =>
       /\ pc = "idle" /\ pc' = "idle"
       /\ lastTime' = now
       /\ \/ nLevels' = nLevels + 1 /\ startWaits'[nLevels']
          \/ nLevels' = nLevels /\ rafLatest'
C12_Stopped ==
  /\ [](~running => pc = "idle")
  /\ [][C12_Step]_vars

\* C12 witness: the engine has been stopped after a tick that updated and drew
\* its level; no frame is pending.
C12_Witness ==
  /\ ~running /\ pc = "idle"
  /\ ~rafLatest /\ rafOther = 0
  /\ phases = TickOrder(TRUE, "level")
  /\ current # 0 /\ ~isLoading

\* C13: start() on a running engine changes nothing.  Hence, in a step taken
\* with the running flag set: no loadLevel call begins that a start() awaits
\* (so start() destroys and loads no level); _lastTime changes only as a tick
\* begins (the clock is not reset); and a frame is requested only at the end
\* of a tick, or by a start() made before, whose loadLevel call now returns.
C13_Step ==
  running =>
    /\ \A k \in Keys \cup {NoKey} : Start(k) => UNCHANGED vars
    /\ \A l \in Levels : startWaits'[l] => startWaits[l]
    /\ lastTime' # lastTime => TickBegins
    /\ (rafOther' > rafOther \/ (rafLatest' /\ ~rafLatest)) =>
         \/ pc = "schedule"
         \/ \E l \in Levels : startWaits[l] /\ loadStage[l] \in {"settled", "rejected"}
                                /\ loadStage'[l] = "done"
C13_StartWhileRunning == [][C13_Step]_vars

\* C13 witness: the engine is running between two ticks, its level loaded and
\* drawn, a frame pending, and time has passed since the latest tick: start()
\* can be called, and a reset of the clock or a load would show.
C13_Witness ==
  /\ running /\ Quiet
  /\ current # 0 /\ ~isLoading /\ initialized[current]
  /\ rafLatest
  /\ phases = TickOrder(TRUE, "level")
  /\ lastTime > 0 /\ now > lastTime
  /\ nLevels < MaxLevels

\* A start() whose loadLevel returns at once, the key not registered: the
\* running flag is set and no loadLevel call begins.
BareStart == ~running /\ running' /\ nLevels' = nLevels

\* C14, as stated: loadLevel with an unregistered key changes nothing, and
\* after a start() with such a key the frame loop starts and renders no level
\* content: the state start() leaves is one in which a tick renders none
\* (there is no current level, or the engine is loading).
C14_AsStated ==
  [][/\ \A k \in {NoKey} : LoadLevel(k) => UNCHANGED vars
     /\ BareStart => rafLatest' /\ (current' = 0 \/ isLoading')]_vars

\* C14, amended: no level is ever current under an unregistered key;
\* loadLevel with such a key changes nothing; start() with such a key sets the
\* running flag and the clock and requests a frame, and leaves the current
\* level and its key, the loading flag, progress and message, the live and
\* pending sets as they were and invokes no hook; and the ticks that follow
\* render level content exactly if a level is current and the engine is not
\* loading when they render: none if there is no level, the content of the
\* level that was current otherwise.
C14_Step ==
  /\ \A k \in {NoKey} : LoadLevel(k) => UNCHANGED vars
  /\ BareStart =>
       /\ rafLatest' /\ lastTime' = now
       /\ UNCHANGED <<loadVars, setVars, tickVars, objDestroyed, objLate, lvLate>>
  /\ (pc = "render" /\ pc' # "render") =>
       /\ ("level" \in SeqSet(phases')) = (current # 0 /\ ~isLoading)
       /\ ("loadingScreen" \in SeqSet(phases')) = isLoading
C14_Unregistered ==
  /\ [](currentKey \in Keys \cup {""})
  /\ [][C14_Step]_vars

\* C14 witness: after start() with an unregistered key on an engine without a
\* level, a tick has run and rendered nothing, and the next frame is pending.
C14_Witness ==
  /\ running /\ pc = "idle" /\ rafLatest
  /\ current = 0 /\ nLevels = 0
  /\ phases = TickOrder(FALSE, "")

\* The loadLevel call of level l learns that _init() threw; the call returns.
InitFails(l) == loadStage[l] = "preload" /\ loadStage'[l] = "rejected"
FailedReturns(l) == loadStage[l] = "rejected" /\ loadStage'[l] = "done"

\* C15: when preload() rejects or create() throws, the level stays the current
\* one, not initialised; the call then returns as any other: the loading flag
\* is cleared, a start() that awaited the call requests its frame, and the
\* current level and key stay (nothing restores the level before, which has
\* been destroyed).  And a tick that begins with a level current and the flag
\* clear updates and draws that level, initialised or not.
C15_Step ==
  /\ \A l \in Levels :
       /\ InitFails(l) =>
            /\ ~initialized'[l]
            /\ UNCHANGED <<current, currentKey, isLoading, lvDestroyed>>
       /\ FailedReturns(l) =>
            /\ ~isLoading'
            /\ ~initialized'[l]
            /\ startWaits[l] => rafLatest'
            /\ UNCHANGED <<current, currentKey, setVars, lvDestroyed, running>>
  /\ (TickBegins /\ current # 0 /\ ~isLoading) =>
       pc' = "drainAdd" /\ lvl' = current
  /\ (pc = "render" /\ current # 0 /\ ~isLoading) =>
       pc' = "levelDraw" /\ lvl' = current
C15_NoRollback == [][C15_Step]_vars

\* C15 witness: a level replaced another and its create() threw; the call has
\* returned, and a tick has drained what the hook had added, updated the
\* level and now draws it: the level is current and not initialised.
C15_Witness ==
  /\ pc = "entityDraw" /\ lvl = current /\ current > 1
  /\ ~initialized[current] /\ ~isLoading
  /\ loadStage[current] = "done"
  /\ callLog[current][Len(callLog[current]) - 1] = "thrown"
  /\ objects[current] # <<>>
  /\ Len(Hooks("levelDraw")) = 1

\* C16, as stated: no tick is executed between the moment a loadLevel call sets the
\* loading flag and the moment it clears it: no tick begins with the flag set
\* (a tick that begins with it set goes from Camera.update straight to the
\* render, with a level current), and none is then rendering the loading
\* screen.
C16_LoopPaused ==
  ~(isLoading /\ pc = "render" /\ phases = <<"camera">>)

\* A loadLevel call begins; a loadLevel call returns.
LoadBegins == nLevels' = nLevels + 1
LoadReturns(l) == loadStage[l] \in {"settled", "rejected"} /\ loadStage'[l] = "done"

\* C16, amended: start() requests no frame until its loadLevel call has
\* returned, and requests one in the step in which it returns; a loadLevel
\* call cancels no pending frame and holds none back, whoever makes it; a
\* tick that begins with the loading flag set does Camera.update, skips
\* Level._update, renders the loading screen and nothing of the level, and
\* every tick, the flag set or not, ends with the request of the next frame.
C16_Step ==
  /\ LoadBegins =>
       /\ UNCHANGED <<rafLatest, rafOther>>
       /\ isLoading'
       /\ running' # running => startWaits'[nLevels']
  /\ \A l \in Levels : (LoadReturns(l) /\ startWaits[l]) => rafLatest'
  /\ \A l \in Levels :
       (LoadReturns(l) /\ ~startWaits[l]) => UNCHANGED <<rafLatest, rafOther>>
  /\ (TickBegins /\ isLoading) => pc' = "render" /\ phases' = <<"camera">>
  /\ (pc = "render" /\ isLoading) =>
       pc' = "flush" /\ phases' = phases \o <<"clear", "loadingScreen">>
  /\ pc = "schedule" => pc' = "idle" /\ rafLatest'
C16_LoopGoesOn == [][C16_Step]_vars

\* C16 witness: a loadLevel call that no start() made has replaced a level of
\* the running engine; its preload is pending, and a tick has rendered the
\* loading screen and requested the next frame.
C16_Witness ==
  /\ pc = "idle" /\ running /\ isLoading /\ rafLatest
  /\ current > 1 /\ loadStage[current] = "preload" /\ ~startWaits[current]
  /\ phases = TickOrder(FALSE, "loadingScreen")

\* The preload of level l resolves and _init() goes on.
PreloadDone(l) == loadStage[l] = "preload" /\ loadStage'[l] = "settled"

\* C17: stop() leaves every loadLevel call where it stands and the loading
\* flag as it is; a preload that is pending can still resolve when the engine
\* is stopped; when it does, the level's create hook runs and the level is
\* initialised, and when the call then returns the loading flag is cleared;
\* and while the engine is stopped no tick is in progress, so that no hook of
\* a tick (update, draw, drawUI) runs.
C17_Step ==
  /\ (running /\ ~running') =>
       UNCHANGED <<loadStage, isLoading, current, currentKey, initialized, callLog>>
  /\ \A l \in Levels :
       /\ (~running /\ PreloadDone(l)) =>
            /\ initialized'[l]
            /\ callLog'[l] = callLog[l] \o <<"preloaded", "create">>
            /\ isLoading' = isLoading
       /\ (~running /\ LoadReturns(l)) => ~isLoading' /\ ~running'
C17_StopKeepsLoad ==
  /\ [](\A l \in Levels : (Quiet /\ loadStage[l] = "preload") => ENABLED PreloadResolve(l))
  /\ [](~running => pc = "idle" /\ trace = <<>>)
  /\ [][C17_Step]_vars

\* C17 witness: the engine was stopped while the preload of the level its
\* start() loads was pending; the preload has resolved and create() has run.
C17_Witness ==
  /\ ~running /\ isLoading
  /\ \E l \in Levels :
       /\ l = current /\ startWaits[l] /\ loadStage[l] = "settled"
       /\ initialized[l]
       /\ callLog[l][Len(callLog[l])] = "create"

\* C18: a step taken with the loading flag clear, and that leaves it clear,
\* changes neither the loading progress nor the loading message: outside a
\* load, setLoadingProgress has no effect.
C18_NoEffectUnlessLoading ==
  [][(~isLoading /\ ~isLoading') => UNCHANGED <<loadingProgress, loadingMessage>>]_vars

\* C19: in every state the loading progress is a number from 0 to 1 (in
\* tenths: from 0 to 10).
C19_ProgressInRange ==
  /\ ~loadingProgress.nan
  /\ loadingProgress.v >= 0
  /\ loadingProgress.v <= 10

\* C20: no one-shot input state is reported to more than one tick: a tick that
\* begins with it set counts one, and the tick clears it.  The input state
\* changes in no step of a tick but the one after the render, which clears
\* the four one-shot states and nothing else; after it none is set until the
\* next event.  What is held (a key, the pointer) changes only with an event
\* between two tasks, and a key is held no longer only when its release has
\* been recorded.
C20_Step ==
  /\ (pc # "idle" /\ pc # "flush") => UNCHANGED inputVars
  /\ pc = "flush" =>
       /\ "clear" \in SeqSet(phases)
       /\ keysJustPressed' = {} /\ keysJustReleased' = {}
       /\ ~mouse'.justPressed /\ ~mouse'.justReleased
       /\ keys' = keys /\ mouse'.down = mouse.down
  /\ (TickBegins /\ running) =>
       \A e \in Edges : EdgeSet(Input, e) => edgeTicks'[e] = 1
  /\ \A c \in Codes : (c \in keys /\ c \notin keys') => c \in keysJustReleased'
  /\ (mouse.down /\ ~mouse'.down) => pc = "idle" /\ pc' = "idle"
C20_EdgesOneTick ==
  /\ [](\A e \in Edges : edgeTicks[e] <= 1)
  /\ [](pc = "schedule" => \A e \in Edges : ~EdgeSet(Input, e))
  /\ [][C20_Step]_vars

\* C20 witness: an entity is drawn in a tick in which a key and the pointer
\* are held and neither press is reported any more: an earlier tick has
\* cleared them.
C20_Witness ==
  /\ pc = "entityDraw" /\ Len(Hooks("draw")) > 0
  /\ "KeyR" \in keys /\ ~KeyPressed(Input, "KeyR")
  /\ mouse.down /\ ~PointerPressed(Input)

\* The hooks in c are those of one cascade over the entities objs of level l:
\* the entity hook of every one of them, once each and in Map order, and after
\* them the level's own hook, once.
CascadeOrder(c, l, objs, entityHook, levelHook) ==
  /\ Len(c) = Len(objs) + 1
  /\ \A i \in 1..Len(c) : c[i].level = l
  /\ \A o \in SeqSet(objs) :
       \E i \in 1..(Len(c) - 1) : c[i].hook = entityHook /\ c[i].obj = o
  /\ \A i \in 1..(Len(c) - 1) :
       c[i].hook = entityHook /\ c[i].obj = objs[i] /\ c[i].held = Len(objs)
  /\ c[Len(c)].hook = levelHook /\ c[Len(c)].obj = 0
  /\ \A i \in 1..Len(c) : c[i].hook = levelHook => i = Len(c)

\* C21: a step that runs Level._destroy (a loadLevel call begins with a level
\* current) invokes the destroy hook of every live entity of that level, then
\* empties the live set, then invokes the level's own destroy hook, which
\* finds the Map empty; a step that runs Level._resize (a loadLevel call whose
\* _init() succeeded returns, or the window is resized) invokes the resize
\* hook of every live entity of the current level and then the level's own.
C21_Step ==
  /\ (LoadBegins /\ current # 0) =>
       /\ CascadeOrder(cascade', current, objects[current], "destroy", "levelDestroy")
       /\ cascade'[Len(cascade')].held = 0
       /\ objects'[current] = <<>>
  /\ (LoadBegins /\ current = 0) => cascade' = <<>>
  /\ (\E l \in Levels : LoadReturns(l) /\ loadStage[l] = "settled") => cascade' # <<>>
  /\ (cascade' # cascade /\ cascade' # <<>> /\ ~LoadBegins) =>
       /\ current # 0
       /\ CascadeOrder(cascade', current, objects[current], "resize", "levelResize")
       /\ objects' = objects
C21_Cascades == [][C21_Step]_vars

\* C21 witness: a level with two live entities has been torn down: the destroy
\* hooks of both have run, and the level's own after them.
C21_Witness ==
  /\ Len(cascade) = 3
  /\ cascade[1].hook = "destroy" /\ cascade[2].hook = "destroy"
  /\ cascade[3].hook = "levelDestroy"

\* How often x occurs in the sequence s.
Count(s, x) == Cardinality({i \in 1..Len(s) : s[i] = x})

\* C22: a level instance has its preload begun once, and its create hook run
\* at most once and only after its preload has completed; the level a
\* loadLevel or reloadLevel call makes current is a fresh instance, never one
\* that was current before; and an instance that has been replaced or
\* destroyed is not initialised afterwards.
C22_Step ==
  /\ current' # current => current' = nLevels + 1 /\ callLog[current'] = <<>>
  /\ \A l \in Levels :
       (initialized'[l] /\ ~initialized[l]) => l = current /\ lvDestroyed[l] = 0
C22_OncePerInstance ==
  /\ [](\A l \in Levels :
          /\ Count(callLog[l], "preload") <= 1
          /\ Count(callLog[l], "create") <= 1
          /\ Count(callLog[l], "create") = Count(callLog[l], "preloaded")
          /\ \A i \in 1..Len(callLog[l]) :
               callLog[l][i] = "create" => callLog[l][i - 1] = "preloaded")
  /\ [][C22_Step]_vars

\* The view [lo, lo + size] lies within [0, bound] on an axis where it is
\* narrower than the bounds, and is centred on them where it is not.
AxisInBounds(lo, size, bound) ==
  IF size < bound
  THEN lo >= 0 /\ lo + size <= bound
  ELSE 2 * lo + size = bound

\* C23: with bounds set, the rectangle getVisibleBounds returns after a
\* Camera.update lies within the bounds on each axis on which the view is
\* narrower than the bounds, and is centred on the bounds on each axis on
\* which it is not: with a shake in progress as without one.
C23_ViewInBounds ==
  [][(TickBegins /\ camera.bounds # NoBounds) =>
       LET view == GetVisibleBounds(camera')
       IN  /\ AxisInBounds(view.x, view.width, camera.bounds.width)
           /\ AxisInBounds(view.y, view.height, camera.bounds.height)]_vars

\* The calls the latest event made for pair i to callback j of body b.
Notified(b, j, i) ==
  {n \in 1..Len(physics.notified) :
     /\ physics.notified[n].body = b
     /\ physics.notified[n].position = j
     /\ physics.notified[n].pair = i}

\* C24: for every pair of the latest collisionStart or collisionEnd event
\* whose two Matter bodies both have a PhysicsBody, every callback the one has
\* registered for that event has been called once with the other, and every
\* callback of the other once with the one, A's before B's; for a pair of
\* which a Matter body has no PhysicsBody no callback has been called; and
\* these are all the calls.
C24_Symmetric ==
  physics.event # "" =>
    /\ \A i \in 1..Len(physics.pairs) :
         LET bodyA == GetBodyFromMatter(physics, physics.pairs[i][1])
             bodyB == GetBodyFromMatter(physics, physics.pairs[i][2])
             Told(b, other) ==
               \A j \in 1..Len(CallbacksOf(physics, physics.event, b)) :
                 /\ Cardinality(Notified(b, j, i)) = 1
                 /\ \A n \in Notified(b, j, i) :
                      /\ physics.notified[n].other = other
                      /\ physics.notified[n].callback
                           = CallbacksOf(physics, physics.event, b)[j]
         IN  IF bodyA # NoBody /\ bodyB # NoBody
             THEN /\ Told(bodyA, bodyB)
                  /\ Told(bodyB, bodyA)
                  /\ \A m, n \in 1..Len(physics.notified) :
                       (/\ physics.notified[m].pair = i /\ physics.notified[n].pair = i
                        /\ physics.notified[m].body = bodyA
                        /\ physics.notified[n].body = bodyB) => m < n
             ELSE \A n \in 1..Len(physics.notified) : physics.notified[n].pair # i
    /\ \A n \in 1..Len(physics.notified) :
         LET e == physics.notified[n]
         IN  /\ e.pair \in 1..Len(physics.pairs)
             /\ e.body \in {GetBodyFromMatter(physics, physics.pairs[e.pair][1]),
                            GetBodyFromMatter(physics, physics.pairs[e.pair][2])}
             /\ e.position \in 1..Len(CallbacksOf(physics, physics.event, e.body))

\* C24 witness: a collisionEnd event has reported two pairs, the first of two
\* bodies that both have a PhysicsBody, with two callbacks and one, the second
\* with a Matter body that has none; three calls have been made.
C24_Witness ==
  /\ physics.event = "collisionEnd" /\ Len(physics.pairs) = 2
  /\ GetBodyFromMatter(physics, physics.pairs[1][1]) # NoBody
  /\ GetBodyFromMatter(physics, physics.pairs[1][2]) # NoBody
  /\ Len(CallbacksOf(physics, "collisionEnd", GetBodyFromMatter(physics, physics.pairs[1][1]))) = 2
  /\ Len(CallbacksOf(physics, "collisionEnd", GetBodyFromMatter(physics, physics.pairs[1][2]))) = 1
  /\ NoBody \in {GetBodyFromMatter(physics, physics.pairs[2][1]),
                 GetBodyFromMatter(physics, physics.pairs[2][2])}
  /\ NoBody # GetBodyFromMatter(physics, physics.pairs[2][1])
  /\ Len(CallbacksOf(physics, "collisionEnd", GetBodyFromMatter(physics, physics.pairs[2][1]))) > 0
  /\ Len(physics.notified) = 3

\* C25: every update, draw and drawUI hook of a level that a tick has invoked
\* was invoked after the create hook of that level had run (all preloads
\* resolve), whatever loadLevel calls were made and however they overlap.
C25_CreatedBeforeUse ==
  \A i \in 1..Len(trace) :
    trace[i].hook \in {"levelUpdate", "levelDraw", "levelDrawUI"} =>
      Count(callLog[trace[i].level], "create") = 1

\* C26: at most one frame callback is pending at any time.
C26_OneFramePending ==
  (IF rafLatest THEN 1 ELSE 0) + rafOther <= 1

\* C27: an entity leaves the live set of its level only in a step that invokes
\* its destroy hook (a pass of the remove loop of the drain, or the teardown
\* of the level), so that between frames every entity a level has created is
\* live or destroyed.
C27_Step ==
  \A l \in Levels : \A o \in SeqSet(objects[l]) \ SeqSet(objects'[l]) :
    \/ /\ Len(trace') = Len(trace) + 1
       /\ trace'[Len(trace')].hook = "destroy" /\ trace'[Len(trace')].obj = o
    \/ /\ LoadBegins
       /\ \E i \in 1..Len(cascade') : cascade'[i].hook = "destroy" /\ cascade'[i].obj = o
C27_LiveOrDestroyed == [][C27_Step]_vars

\* The positions in trace at which hook `kind` of object o was invoked.
At(kind, o) == {i \in 1..Len(trace) : trace[i].hook = kind /\ trace[i].obj = o}

\* C28: when the remove loop of a drain has ended, every object the add loop
\* of this drain inserted and created, and whose id is in the pending-remove
\* Set, has had its destroy hook invoked, after its create hook, and is not in
\* the live set; and an object the drain has created and destroyed gets no
\* update in this frame.
C28_AddedAndRemoved ==
  /\ (pc = "drainRemove" /\ idx > Len(toRemove[lvl])) =>
       \A o \in SeqSet(HookObjs("create")) :
         ObjId(o) \in SeqSet(toRemove[lvl]) =>
           /\ o \notin SeqSet(objects[lvl])
           /\ Cardinality(At("destroy", o)) = 1
           /\ \A i \in At("create", o), j \in At("destroy", o) : i < j
  /\ pc \in UpdatePcs =>
       \A o \in SeqSet(HookObjs("create")) \cap SeqSet(HookObjs("destroy")) :
         At("update", o) = {}

\* C29: a pending add leaves the pending-add array only when the add loop of
\* a drain has ended, having inserted every object of the array and invoked
\* its create hook, those the create hooks added during the loop included; a
\* pending id leaves the pending-remove Set only when the remove loop has
\* ended, having visited every id of the Set, those added during the drain
\* included, so that none of them is in the Map; what a destroy hook adds
\* during the remove loop stays pending for the next Level._update; and a
\* pass of either loop handles the request at its position.  (Requests are
\* dropped only with a level that is never updated again.)
C29_Step ==
  /\ \A l \in Levels :
       /\ (~IsPrefix(toAdd[l], toAdd'[l]) /\ l = current') =>
            /\ pc = "drainAdd" /\ pc' = "drainRemove" /\ l = lvl
            /\ idx > Len(toAdd[l])
            /\ HookObjs("create") = toAdd[l]
            /\ toAdd'[l] = <<>>
       /\ (~IsPrefix(toRemove[l], toRemove'[l]) /\ l = current') =>
            /\ pc = "drainRemove" /\ pc' = "levelUpdate" /\ l = lvl
            /\ idx > Len(toRemove[l])
            /\ \A id \in SeqSet(toRemove[l]) : ~MapHas(objects[l], id)
            /\ toRemove'[l] = <<>>
            /\ toAdd'[l] = toAdd[l]
  /\ (pc = "drainAdd" /\ idx <= Len(toAdd[lvl])) =>
       /\ toAdd[lvl][idx] \in SeqSet(objects'[lvl])
       /\ trace'[Len(trace')].hook = "create" /\ trace'[Len(trace')].obj = toAdd[lvl][idx]
       /\ pc' = "drainAdd" /\ idx' = idx + 1
  /\ (pc = "drainRemove" /\ idx <= Len(toRemove[lvl])) =>
       /\ ~MapHas(objects'[lvl], toRemove[lvl][idx])
       /\ pc' = "drainRemove" /\ idx' = idx + 1
C29_NothingLost == [][C29_Step]_vars

\* C29 witness: a drain has ended in which two create hooks and a destroy hook
\* ran, and an object a destroy hook added during the remove loop is pending.
C29_Witness ==
  /\ pc = "levelUpdate" /\ lvl = current
  /\ Len(Hooks("create")) = 2 /\ Len(Hooks("destroy")) >= 1
  /\ toAdd[lvl] # <<>> /\ toRemove[lvl] = <<>>

\* C30: in the sample game, once a squeeze level is complete and the pointer
\* is released (a click), the engine eventually runs the level that the
\* level's getNextLevel() names.
C30_ClickContinues ==
  /\ (squeeze.key = "level-01" /\ squeeze.gameState = "complete" /\ PointerReleased(Input))
       ~> (squeeze.key = GetNextLevel("level-01"))
  /\ (squeeze.key = "level-02" /\ squeeze.gameState = "complete" /\ PointerReleased(Input))
       ~> (squeeze.key = GetNextLevel("level-02"))

=============================================================================
